---- MODULE Spec2Model ----
(***************************************************************************)
(* Model of the exercise codec of coros-mcp:                               *)
(*   src/src/coros_mcp/api/exercises.py  (to_coros, parse_pace, parse_hr)  *)
(*   src/src/coros_mcp/api/model.py      (Exercise, validate)              *)
(*   src/src/coros_mcp/sdk/types.py      (codes and tables)                *)
(*                                                                         *)
(* Conventions.  Python's None is the empty tuple; an optional value v is  *)
(* the one-element tuple <<v>>.  A Python str is a sequence of             *)
(* one-character strings.  A Python number written n / 10^k (an int when   *)
(* k = 0, a float literal with k decimals otherwise) is the record         *)
(* [n |-> n, k |-> k]; float arithmetic is IEEE binary64, computed on bit  *)
(* sequences because the significand does not fit a machine integer.       *)
(***************************************************************************)
EXTENDS Integers, Sequences, FiniteSets, TLC

None == <<>>
Some(v) == <<v>>
IsNone(o) == o = <<>>
Val(o) == o[1]

(***************************************************************************)
(* Python str operations used by the parsers.                              *)
(***************************************************************************)
Digits == <<"0", "1", "2", "3", "4", "5", "6", "7", "8", "9">>
IsDigit(c) == \E i \in 1..Len(Digits) : Digits[i] = c
DigitVal(c) == (CHOOSE i \in 1..Len(Digits) : Digits[i] = c) - 1

\* str.split(sep) for a one-character separator: always at least one part.
RECURSIVE SplitFrom(_, _, _, _)
SplitFrom(s, sep, i, cur) ==
    IF i > Len(s) THEN <<cur>>
    ELSE IF s[i] = sep THEN <<cur>> \o SplitFrom(s, sep, i + 1, <<>>)
    ELSE SplitFrom(s, sep, i + 1, Append(cur, s[i]))
Split(s, sep) == SplitFrom(s, sep, 1, <<>>)

\* str.split(sep, 1): at most one split, at the first occurrence of sep.
Contains(s, c) == \E i \in 1..Len(s) : s[i] = c
Split1(s, sep) ==
    IF ~Contains(s, sep) THEN <<s>>
    ELSE LET i == CHOOSE j \in 1..Len(s) :
                      s[j] = sep /\ \A h \in 1..(j - 1) : s[h] # sep
         IN  <<SubSeq(s, 1, i - 1), SubSeq(s, i + 1, Len(s))>>

\* str.strip(): leading and trailing blanks removed.
RECURSIVE LStrip(_)
LStrip(s) == IF s # <<>> /\ s[1] = " " THEN LStrip(Tail(s)) ELSE s
RECURSIVE RStrip(_)
RStrip(s) ==
    IF s # <<>> /\ s[Len(s)] = " " THEN RStrip(SubSeq(s, 1, Len(s) - 1)) ELSE s
Strip(s) == LStrip(RStrip(s))

\* int(s): s stripped must be a non-empty run of decimal digits, else
\* ValueError.  (Signs and underscores are outside the model's alphabet.)
IntOk(s) == LET t == Strip(s) IN t # <<>> /\ \A i \in 1..Len(t) : IsDigit(t[i])
RECURSIVE DigitsVal(_, _)
DigitsVal(t, acc) ==
    IF t = <<>> THEN acc ELSE DigitsVal(Tail(t), acc * 10 + DigitVal(t[1]))
IntOf(s) == DigitsVal(Strip(s), 0)

\* str(n) for a natural number n.
RECURSIVE DecStr(_)
DecStr(n) ==
    IF n < 10 THEN <<Digits[n + 1]>>
    ELSE Append(DecStr(n \div 10), Digits[(n % 10) + 1])
\* f"{n:02d}" for a natural number n.
Pad2(n) == IF n < 10 THEN <<"0">> \o DecStr(n) ELSE DecStr(n)

(***************************************************************************)
(* Python numbers.  int(x * c) at exercises.py:246, 250, 254 with c an     *)
(* int: exact when x is an int; when x is a float the product is the       *)
(* binary64 product, rounded to nearest-even, and int() truncates it.      *)
(* A significand is a big-endian sequence of bits; the operators below     *)
(* keep recursion shallow (halving, or 13-bit limbs).                      *)
(***************************************************************************)
Num(n, k) == [n |-> n, k |-> k]

RECURSIVE Pow10(_)
Pow10(k) == IF k = 0 THEN 1 ELSE 10 * Pow10(k - 1)
RECURSIVE Pow2(_)
Pow2(n) ==
    IF n = 0 THEN 1
    ELSE LET h == Pow2(n \div 2) IN IF n % 2 = 0 THEN h * h ELSE 2 * h * h

\* Width of the binary64 significand.
FloatPrecision == 53
\* Width of a limb of the exact product.
LimbBits == 13

\* Bits of a natural number below 2^30, without leading zeros, and back.
BitLen(n) ==
    IF n = 0 THEN 0 ELSE CHOOSE L \in 1..30 : Pow2(L - 1) <= n /\ n < Pow2(L)
ToBitsW(n, w) == [i \in 1..w |-> (n \div Pow2(w - i)) % 2]
ToBits(n) == ToBitsW(n, BitLen(n))
RECURSIVE FromBits(_)
FromBits(b) ==
    IF Len(b) = 0 THEN 0
    ELSE IF Len(b) = 1 THEN b[1]
    ELSE LET h == Len(b) \div 2
         IN  FromBits(SubSeq(b, 1, h)) * Pow2(Len(b) - h)
               + FromBits(SubSeq(b, h + 1, Len(b)))
ZeroBits(n) == [i \in 1..n |-> 0]
StripZeros(b) ==
    IF \A i \in 1..Len(b) : b[i] = 0 THEN <<>>
    ELSE LET f == CHOOSE i \in 1..Len(b) :
                      b[i] = 1 /\ \A j \in 1..(i - 1) : b[j] = 0
         IN  SubSeq(b, f, Len(b))
\* b + 1.
IncBits(b) ==
    IF \A i \in 1..Len(b) : b[i] = 1 THEN <<1>> \o ZeroBits(Len(b))
    ELSE LET z == CHOOSE i \in 1..Len(b) :
                      b[i] = 0 /\ \A j \in (i + 1)..Len(b) : b[j] = 1
         IN  SubSeq(b, 1, z - 1) \o <<1>> \o ZeroBits(Len(b) - z)

\* (a * b) % d for a, b < d <= 10^5, without leaving 32 bits.
MulMod(a, b, d) == (((a * (b \div 1000)) % d) * 1000 + a * (b % 1000)) % d
RECURSIVE PowMod2(_, _)
PowMod2(j, d) ==
    IF j = 0 THEN 1 % d
    ELSE LET h == PowMod2(j \div 2, d)
             q == MulMod(h, h, d)
         IN  IF j % 2 = 0 THEN q ELSE (2 * q) % d

\* Binary expansion of r / d (0 <= r < d): the remainder left after j bits,
\* the first cnt bits, and the number of zeros before the first one.
FracRem(r, d, j) == MulMod(r, PowMod2(j, d), d)
FracBits(r, d, cnt) ==
    [i \in 1..cnt |-> IF 2 * FracRem(r, d, i - 1) >= d THEN 1 ELSE 0]
RECURSIVE LeadZeros(_, _)
LeadZeros(r, d) == IF 2 * r >= d THEN 0 ELSE 1 + LeadZeros(2 * r, d)

\* A positive float is [m |-> significand bits, e |-> e]: the value m * 2^e.
\* FloatOf(x): the binary64 nearest to the decimal literal x.n / 10^x.k
\* (x.n > 0), ties to even, as Python reads a float literal.
FloatOf(x) ==
    LET d  == Pow10(x.k)
        ip == x.n \div d
        r0 == x.n % d
    IN  IF r0 = 0 THEN [m |-> ToBits(ip), e |-> 0]
        ELSE LET F   == IF ip > 0 THEN FloatPrecision - BitLen(ip)
                        ELSE LeadZeros(r0, d) + FloatPrecision
                 b   == StripZeros(ToBits(ip) \o FracBits(r0, d, F))
                 rem == FracRem(r0, d, F)
                 up  == 2 * rem > d \/ (2 * rem = d /\ b[Len(b)] = 1)
             IN  [m |-> IF up THEN IncBits(b) ELSE b, e |-> 0 - F]

\* m * c for a natural c <= 10^5, exact: limb by limb from the low end.
Limbs(b) ==
    LET n == (Len(b) + LimbBits - 1) \div LimbBits
        p == ZeroBits(n * LimbBits - Len(b)) \o b
    IN  [j \in 1..n |->
            FromBits(SubSeq(p, (j - 1) * LimbBits + 1, j * LimbBits))]
RECURSIVE MulLimbs(_, _, _, _)
MulLimbs(l, j, c, carry) ==
    IF j = 0 THEN ToBits(carry)
    ELSE LET t == l[j] * c + carry
         IN  MulLimbs(l, j - 1, c, t \div Pow2(LimbBits))
               \o ToBitsW(t % Pow2(LimbBits), LimbBits)
MulBits(b, c) == LET l == Limbs(b) IN StripZeros(MulLimbs(l, Len(l), c, 0))

\* Round a significand to FloatPrecision bits, ties to even.
RoundFloat(f) ==
    LET b == StripZeros(f.m)
    IN  IF Len(b) <= FloatPrecision THEN [m |-> b, e |-> f.e]
        ELSE LET keep   == SubSeq(b, 1, FloatPrecision)
                 guard  == b[FloatPrecision + 1]
                 sticky == \E j \in (FloatPrecision + 2)..Len(b) : b[j] = 1
                 up     == guard = 1 /\ (sticky \/ keep[FloatPrecision] = 1)
             IN  [m |-> IF up THEN IncBits(keep) ELSE keep,
                  e |-> f.e + (Len(b) - FloatPrecision)]

\* float * int, as binary64.
FloatMul(f, c) == RoundFloat([m |-> MulBits(f.m, c), e |-> f.e])

\* int(f): truncation toward zero.
FloatTrunc(f) ==
    IF f.e >= 0 THEN FromBits(f.m \o ZeroBits(f.e))
    ELSE IF Len(f.m) + f.e <= 0 THEN 0
    ELSE FromBits(SubSeq(f.m, 1, Len(f.m) + f.e))

\* int(x * c) for a positive Python number x and an int c.
IntOfProduct(x, c) ==
    IF x.k = 0 THEN x.n * c ELSE FloatTrunc(FloatMul(FloatOf(x), c))

(***************************************************************************)
(* sdk/types.py: codes and tables.                                         *)
(***************************************************************************)
ExerciseType_GROUP == 0
ExerciseType_WARMUP == 1
ExerciseType_INTERVAL == 2
ExerciseType_COOLDOWN == 3
ExerciseType_RECOVERY == 4
TargetType_NONE == 0
TargetType_DURATION == 2
TargetType_DISTANCE == 5
TargetDisplayUnit_SECONDS == 0
TargetDisplayUnit_METERS == 1
TargetDisplayUnit_KILOMETERS == 2
RestType_TIMED == 0
RestType_NO_REST == 3

SPORT_NAME_TO_CODE ==
    [running |-> 1, run |-> 1, trail |-> 3, strength |-> 4, hike |-> 5,
     bike |-> 6, cycling |-> 6, pool_swim |-> 9, swim |-> 9, open_water |-> 10]

EXERCISE_TEMPLATES ==
    (ExerciseType_WARMUP :>
        [name |-> "T1120", overview |-> "sid_run_warm_up_dist",
         originId |-> "425895398452936705", createTimestamp |-> 1586584068,
         defaultOrder |-> 1, isDefaultAdd |-> 0])
    @@ (ExerciseType_INTERVAL :>
        [name |-> "T3001", overview |-> "sid_run_training",
         originId |-> "426109589008859136", createTimestamp |-> 1587381919,
         defaultOrder |-> 2, isDefaultAdd |-> 1])
    @@ (ExerciseType_COOLDOWN :>
        [name |-> "T1122", overview |-> "sid_run_cool_down_dist",
         originId |-> "425895456971866112", createTimestamp |-> 1586584214,
         defaultOrder |-> 3, isDefaultAdd |-> 0])
    @@ (ExerciseType_RECOVERY :>
        [name |-> "T1123", overview |-> "sid_run_cool_down_dist",
         originId |-> "425895398452936705", createTimestamp |-> 1586584214,
         defaultOrder |-> 3, isDefaultAdd |-> 0])

(***************************************************************************)
(* api/model.py: Exercise.                                                 *)
(***************************************************************************)
VALID_EXERCISE_TYPES == {"warmup", "interval", "cooldown", "recovery"}

\* dict.get(key), with None for a missing key.
Get(d, key) == IF key \in DOMAIN d THEN d[key] ELSE None

\* Mutant of from_dict: a dict without "type" is taken as a warmup.
from_dict_DefaultWarmup(d) ==
    [type             |-> IF "type" \in DOMAIN d THEN d["type"] ELSE "warmup",
     duration_minutes |-> Get(d, "duration_minutes"),
     distance_m       |-> Get(d, "distance_m"),
     distance_km      |-> Get(d, "distance_km"),
     repeats          |-> Get(d, "repeats"),
     rest_seconds     |-> Get(d, "rest_seconds"),
     pace_per_km      |-> Get(d, "pace_per_km"),
     hr_bpm           |-> Get(d, "hr_bpm")]

\* Exercise.from_dict.
from_dict(d) ==
    [type             |-> IF "type" \in DOMAIN d THEN d["type"] ELSE "interval",
     duration_minutes |-> Get(d, "duration_minutes"),
     distance_m       |-> Get(d, "distance_m"),
     distance_km      |-> Get(d, "distance_km"),
     repeats          |-> Get(d, "repeats"),
     rest_seconds     |-> Get(d, "rest_seconds"),
     pace_per_km      |-> Get(d, "pace_per_km"),
     hr_bpm           |-> Get(d, "hr_bpm")]

\* _validate_pace_format: TRUE when it returns, FALSE when it raises.
PacePartOk(part) ==
    LET p == Strip(part)
    IN  /\ Contains(p, ":")
        /\ LET ms == Split1(p, ":") IN IntOk(ms[1]) /\ IntOk(ms[2])
validate_pace_format(s) ==
    LET parts == Split(s, "-")
    IN  Len(parts) <= 2 /\ \A i \in 1..Len(parts) : PacePartOk(parts[i])

\* Mutant of validate_hr_format: any number of parts is let through.
validate_hr_format_AnyParts(s) ==
    LET parts == Split(s, "-") IN \A i \in 1..Len(parts) : IntOk(parts[i])

\* _validate_hr_format: TRUE when it returns, FALSE when it raises.
validate_hr_format(s) ==
    LET parts == Split(s, "-")
    IN  Len(parts) <= 2 /\ \A i \in 1..Len(parts) : IntOk(parts[i])

\* Exercise.validate: None when it returns, Some(message) when it raises
\* ValueError; the rules in the order the method tests them.
NumTargets(ex) ==
    Cardinality({f \in {"duration_minutes", "distance_m", "distance_km"} :
                    ~IsNone(ex[f])})
validate(ex) ==
    IF ex.type \notin VALID_EXERCISE_TYPES THEN Some("Invalid exercise type")
    ELSE IF NumTargets(ex) > 1
        THEN Some("Exercise must have at most one target")
    ELSE IF NumTargets(ex) = 0 /\ ex.type # "recovery"
        THEN Some("requires a target")
    ELSE IF ~IsNone(ex.duration_minutes) /\ Val(ex.duration_minutes).n <= 0
        THEN Some("duration_minutes must be positive")
    ELSE IF ~IsNone(ex.distance_m) /\ Val(ex.distance_m).n <= 0
        THEN Some("distance_m must be positive")
    ELSE IF ~IsNone(ex.distance_km) /\ Val(ex.distance_km).n <= 0
        THEN Some("distance_km must be positive")
    ELSE IF ~IsNone(ex.repeats) /\ Val(ex.repeats) < 1
        THEN Some("repeats must be >= 1")
    ELSE IF ~IsNone(ex.rest_seconds) /\ Val(ex.rest_seconds) < 0
        THEN Some("rest_seconds must be >= 0")
    ELSE IF ~IsNone(ex.pace_per_km) /\ ~validate_pace_format(Val(ex.pace_per_km))
        THEN Some("Invalid pace")
    ELSE IF ~IsNone(ex.hr_bpm) /\ ~validate_hr_format(Val(ex.hr_bpm))
        THEN Some("Invalid HR")
    ELSE None

(***************************************************************************)
(* api/exercises.py: the encoder.                                          *)
(***************************************************************************)
\* A Python value's truth: None, 0 and "" are false.
TruthyNum(o) == ~IsNone(o) /\ Val(o).n # 0
TruthyInt(o) == ~IsNone(o) /\ Val(o) # 0
TruthyStr(o) == ~IsNone(o) /\ Val(o) # <<>>

\* str.lower() on the sport names the model feeds in.
Lower(sport) ==
    CASE sport = "Running" -> "running"
      [] sport = "BIKE" -> "bike"
      [] sport = "Badminton" -> "badminton"
      [] OTHER -> sport

\* _resolve_sport: None when it raises ValueError, Some(code) otherwise.
resolve_sport(sport) ==
    IF Lower(sport) \in DOMAIN SPORT_NAME_TO_CODE
    THEN Some(SPORT_NAME_TO_CODE[Lower(sport)])
    ELSE None

\* Mutant of pace_str_to_ms_ok: seconds of 60 and more are refused.
pace_str_to_ms_ok_Below60(s) ==
    LET ms == Split(s, ":")
    IN  Len(ms) = 2 /\ IntOk(ms[1]) /\ IntOk(ms[2]) /\ IntOf(ms[2]) < 60

\* _pace_str_to_ms: "M:SS" to sec/km * 1000; raises unless s splits on ":"
\* into exactly two int literals.
pace_str_to_ms_ok(s) ==
    LET ms == Split(s, ":") IN Len(ms) = 2 /\ IntOk(ms[1]) /\ IntOk(ms[2])
pace_str_to_ms(s) ==
    LET ms == Split(s, ":") IN (IntOf(ms[1]) * 60 + IntOf(ms[2])) * 1000

\* Mutant of parse_pace: the two values are returned in increasing order.
parse_pace_Ordered(s) ==
    LET parts  == Split(s, "-")
        values == [i \in 1..Len(parts) |-> pace_str_to_ms(Strip(parts[i]))]
    IN  IF Len(values) = 1 THEN <<values[1], values[1]>>
        ELSE IF values[1] <= values[2] THEN <<values[1], values[2]>>
        ELSE <<values[2], values[1]>>

\* parse_pace: every part is converted, the first two are returned.
parse_pace_ok(s) ==
    LET parts == Split(s, "-")
    IN  \A i \in 1..Len(parts) : pace_str_to_ms_ok(Strip(parts[i]))
parse_pace(s) ==
    LET parts  == Split(s, "-")
        values == [i \in 1..Len(parts) |-> pace_str_to_ms(Strip(parts[i]))]
    IN  IF Len(values) = 1 THEN <<values[1], values[1]>>
        ELSE <<values[1], values[2]>>

\* parse_hr.
parse_hr_ok(s) ==
    LET parts == Split(s, "-") IN \A i \in 1..Len(parts) : IntOk(parts[i])
parse_hr(s) ==
    LET parts  == Split(s, "-")
        values == [i \in 1..Len(parts) |-> IntOf(parts[i])]
    IN  IF Len(values) = 1 THEN <<values[1], values[1]>>
        ELSE <<values[1], values[2]>>

EXERCISE_TYPE_MAP ==
    [warmup |-> ExerciseType_WARMUP, interval |-> ExerciseType_INTERVAL,
     cooldown |-> ExerciseType_COOLDOWN, recovery |-> ExerciseType_RECOVERY]

\* _build_step_defaults.  groupId is "" (the empty str) here and <<id>> once
\* a caller sets it.
build_step_defaults(exercise_id, sort_no, ex_type, sport_code) ==
    LET tmpl == EXERCISE_TEMPLATES[ex_type]
    IN  [access |-> 0,
         createTimestamp |-> tmpl.createTimestamp,
         defaultOrder |-> tmpl.defaultOrder,
         equipment |-> <<1>>,
         exerciseType |-> ex_type,
         groupId |-> <<>>,
         hrType |-> 0,
         id |-> exercise_id,
         intensityCustom |-> 0,
         intensityDisplayUnit |-> 0,
         intensityMultiplier |-> 0,
         intensityPercent |-> 0,
         intensityPercentExtend |-> 0,
         intensityType |-> 0,
         intensityValue |-> 0,
         intensityValueExtend |-> 0,
         isDefaultAdd |-> tmpl.isDefaultAdd,
         isGroup |-> FALSE,
         isIntensityPercent |-> FALSE,
         name |-> tmpl.name,
         originId |-> tmpl.originId,
         overview |-> tmpl.overview,
         part |-> <<0>>,
         restType |-> RestType_NO_REST,
         restValue |-> 0,
         sets |-> 1,
         sortNo |-> sort_no,
         sourceId |-> "0",
         sourceUrl |-> "",
         sportType |-> sport_code,
         subType |-> 0,
         targetDisplayUnit |-> 0,
         targetType |-> 0,
         targetValue |-> 0,
         userId |-> 0,
         videoUrl |-> ""]

\* _build_group.  A group has no groupId key.
build_group(exercise_id, sort_no, repeats, rest_seconds) ==
    [access |-> 0,
     defaultOrder |-> 0,
     exerciseType |-> ExerciseType_GROUP,
     id |-> exercise_id,
     intensityCustom |-> 0,
     intensityMultiplier |-> 0,
     intensityType |-> 0,
     intensityValue |-> 0,
     intensityValueExtend |-> 0,
     isDefaultAdd |-> 0,
     isGroup |-> TRUE,
     name |-> "",
     originId |-> "",
     overview |-> "",
     programId |-> "",
     restType |-> IF TruthyInt(rest_seconds) THEN RestType_TIMED
                  ELSE RestType_NO_REST,
     restValue |-> IF TruthyInt(rest_seconds) THEN Val(rest_seconds) ELSE 0,
     sets |-> repeats,
     sortNo |-> sort_no,
     sourceId |-> "0",
     sourceUrl |-> "",
     sportType |-> 0,
     subType |-> 0,
     targetType |-> "",
     targetValue |-> 0,
     videoUrl |-> ""]

\* _build_step, lines 243-255: the target.
StepTarget(ex, r) ==
    IF TruthyNum(ex.duration_minutes)
    THEN [r EXCEPT !.targetType = TargetType_DURATION,
                   !.targetValue = IntOfProduct(Val(ex.duration_minutes), 60),
                   !.targetDisplayUnit = TargetDisplayUnit_SECONDS]
    ELSE IF TruthyNum(ex.distance_km)
    THEN [r EXCEPT !.targetType = TargetType_DISTANCE,
                   !.targetValue = IntOfProduct(Val(ex.distance_km), 100000),
                   !.targetDisplayUnit = TargetDisplayUnit_KILOMETERS]
    ELSE IF TruthyNum(ex.distance_m)
    THEN [r EXCEPT !.targetType = TargetType_DISTANCE,
                   !.targetValue = IntOfProduct(Val(ex.distance_m), 100),
                   !.targetDisplayUnit = TargetDisplayUnit_METERS]
    ELSE r

\* _build_step, lines 257-276: the intensity.
StepIntensity(ex, r) ==
    IF TruthyStr(ex.pace_per_km)
    THEN LET lh == parse_pace(Val(ex.pace_per_km))
         IN  [r EXCEPT !.intensityType = 3,
                       !.intensityValue = lh[1],
                       !.intensityValueExtend = lh[2],
                       !.intensityMultiplier = 1000,
                       !.intensityDisplayUnit = "1",
                       !.intensityCustom = 0,
                       !.isIntensityPercent = FALSE]
    ELSE IF TruthyStr(ex.hr_bpm)
    THEN LET lh == parse_hr(Val(ex.hr_bpm))
         IN  [r EXCEPT !.intensityType = 2,
                       !.intensityValue = lh[1],
                       !.intensityValueExtend = lh[2],
                       !.intensityMultiplier = 0,
                       !.intensityDisplayUnit = 0,
                       !.intensityCustom = 2,
                       !.isIntensityPercent = FALSE,
                       !.hrType = 3]
    ELSE r

\* _build_step raises when the parser it calls raises.
build_step_ok(ex) ==
    IF TruthyStr(ex.pace_per_km) THEN parse_pace_ok(Val(ex.pace_per_km))
    ELSE IF TruthyStr(ex.hr_bpm) THEN parse_hr_ok(Val(ex.hr_bpm))
    ELSE TRUE

\* Mutant of StepType: force_type is ignored.
StepType_IgnoreForce(ex, force_type) ==
    IF ex.type \in DOMAIN EXERCISE_TYPE_MAP THEN EXERCISE_TYPE_MAP[ex.type]
    ELSE ExerciseType_INTERVAL

\* _build_step; force_type is None or Some(type).
StepType(ex, force_type) ==
    IF ~IsNone(force_type) /\ Val(force_type) # 0 THEN Val(force_type)
    ELSE IF ex.type \in DOMAIN EXERCISE_TYPE_MAP THEN EXERCISE_TYPE_MAP[ex.type]
    ELSE ExerciseType_INTERVAL
build_step(ex, exercise_id, sort_no, sport_code, force_type) ==
    StepIntensity(ex, StepTarget(ex,
        build_step_defaults(exercise_id, sort_no, StepType(ex, force_type),
                            sport_code)))

\* A call returns Return(v) or ends in Raise(exc, msg).
Return(v) == [raised |-> FALSE, value |-> v]
Raise(exc, msg) == [raised |-> TRUE, exc |-> exc, msg |-> msg]

\* to_coros, lines 52-89: one turn of the loop over a block.  st holds the
\* loop's locals: coros_exercises, exercise_id, sort_no.
IsRepeatGroup(ex) == TruthyInt(ex.repeats) /\ Val(ex.repeats) > 1

\* Mutant of GroupSteps: exercise_id is not advanced after the group record.
GroupSteps_SharedId(ex, st, sport_code) ==
    LET group_id == st.exercise_id
        group == build_group(group_id, st.sort_no, Val(ex.repeats),
                             ex.rest_seconds)
        work == [build_step(ex, st.exercise_id, st.sort_no, sport_code,
                            Some(ExerciseType_INTERVAL))
                    EXCEPT !.groupId = Some(group_id)]
    IN  [coros_exercises |-> st.coros_exercises \o <<group, work>>,
         exercise_id |-> st.exercise_id + 1,
         sort_no |-> st.sort_no + 1]

\* Mutant of GroupSteps: the work step's groupId is its own id.
GroupSteps_SelfGroupId(ex, st, sport_code) ==
    LET group_id == st.exercise_id
        group == build_group(group_id, st.sort_no, Val(ex.repeats),
                             ex.rest_seconds)
        work == [build_step(ex, st.exercise_id + 1, st.sort_no, sport_code,
                            Some(ExerciseType_INTERVAL))
                    EXCEPT !.groupId = Some(st.exercise_id + 1)]
    IN  [coros_exercises |-> st.coros_exercises \o <<group, work>>,
         exercise_id |-> st.exercise_id + 2,
         sort_no |-> st.sort_no + 1]

\* Lines 55-68: the group record, then its work step at the same sort_no.
GroupSteps(ex, st, sport_code) ==
    LET group_id == st.exercise_id
        group == build_group(group_id, st.sort_no, Val(ex.repeats),
                             ex.rest_seconds)
        work == [build_step(ex, st.exercise_id + 1, st.sort_no, sport_code,
                            Some(ExerciseType_INTERVAL))
                    EXCEPT !.groupId = Some(group_id)]
    IN  [coros_exercises |-> st.coros_exercises \o <<group, work>>,
         exercise_id |-> st.exercise_id + 2,
         sort_no |-> st.sort_no + 1]

\* Mutant of RecoveryStep: the recovery step's groupId is left unset.
RecoveryStep_NoGroupId(ex, st, group_id, sport_code) ==
    IF TruthyInt(ex.rest_seconds)
    THEN LET recovery ==
                 [build_step_defaults(st.exercise_id, st.sort_no,
                                      ExerciseType_RECOVERY, sport_code)
                     EXCEPT !.targetType = TargetType_DURATION,
                            !.targetValue = Val(ex.rest_seconds),
                            !.targetDisplayUnit = TargetDisplayUnit_SECONDS]
         IN  [coros_exercises |-> Append(st.coros_exercises, recovery),
              exercise_id |-> st.exercise_id + 1,
              sort_no |-> st.sort_no + 1]
    ELSE st

\* Mutant of RecoveryStep: sort_no is not advanced after the recovery step.
RecoveryStep_NoSortBump(ex, st, group_id, sport_code) ==
    IF TruthyInt(ex.rest_seconds)
    THEN LET recovery ==
                 [build_step_defaults(st.exercise_id, st.sort_no,
                                      ExerciseType_RECOVERY, sport_code)
                     EXCEPT !.groupId = Some(group_id),
                            !.targetType = TargetType_DURATION,
                            !.targetValue = Val(ex.rest_seconds),
                            !.targetDisplayUnit = TargetDisplayUnit_SECONDS]
         IN  [coros_exercises |-> Append(st.coros_exercises, recovery),
              exercise_id |-> st.exercise_id + 1,
              sort_no |-> st.sort_no]
    ELSE st

\* Mutant of RecoveryStep: rest is tested with "is not None", so that
\* rest_seconds = 0 emits a recovery step too.
RecoveryStep_IfNotNone(ex, st, group_id, sport_code) ==
    IF ~IsNone(ex.rest_seconds)
    THEN LET recovery ==
                 [build_step_defaults(st.exercise_id, st.sort_no,
                                      ExerciseType_RECOVERY, sport_code)
                     EXCEPT !.groupId = Some(group_id),
                            !.targetType = TargetType_DURATION,
                            !.targetValue = Val(ex.rest_seconds),
                            !.targetDisplayUnit = TargetDisplayUnit_SECONDS]
         IN  [coros_exercises |-> Append(st.coros_exercises, recovery),
              exercise_id |-> st.exercise_id + 1,
              sort_no |-> st.sort_no + 1]
    ELSE st

\* Lines 70-81: the recovery step of the group group_id, if rest is given.
RecoveryStep(ex, st, group_id, sport_code) ==
    IF TruthyInt(ex.rest_seconds)
    THEN LET recovery ==
                 [build_step_defaults(st.exercise_id, st.sort_no,
                                      ExerciseType_RECOVERY, sport_code)
                     EXCEPT !.groupId = Some(group_id),
                            !.targetType = TargetType_DURATION,
                            !.targetValue = Val(ex.rest_seconds),
                            !.targetDisplayUnit = TargetDisplayUnit_SECONDS]
         IN  [coros_exercises |-> Append(st.coros_exercises, recovery),
              exercise_id |-> st.exercise_id + 1,
              sort_no |-> st.sort_no + 1]
    ELSE st

\* Lines 82-89: a block that is no repeat group.
PlainStep(ex, st, sport_code) ==
    [coros_exercises |->
         Append(st.coros_exercises,
                build_step(ex, st.exercise_id, st.sort_no, sport_code, None)),
     exercise_id |-> st.exercise_id + 1,
     sort_no |-> st.sort_no + 1]

LoopBody(ex, st, sport_code) ==
    IF IsRepeatGroup(ex)
    THEN RecoveryStep(ex, GroupSteps(ex, st, sport_code), st.exercise_id,
                      sport_code)
    ELSE PlainStep(ex, st, sport_code)

RECURSIVE Loop(_, _, _, _)
Loop(parsed, i, st, sport_code) ==
    IF i > Len(parsed) THEN st
    ELSE Loop(parsed, i + 1, LoopBody(parsed[i], st, sport_code), sport_code)

\* Mutant of IsSimpleWorkout: the kind is not tested.
IsSimpleWorkout_NoKindTest(parsed) ==
    Len(parsed) = 1 /\ ~TruthyInt(parsed[1].repeats)

\* Mutant of IsSimpleWorkout: repeats = 1 counts as no repeats.
IsSimpleWorkout_RepeatsOne(parsed) ==
    /\ Len(parsed) = 1
    /\ parsed[1].type \notin {"interval"}
    /\ ~(TruthyInt(parsed[1].repeats) /\ Val(parsed[1].repeats) > 1)

\* to_coros, lines 40-43: the simple-workout test.
IsSimpleWorkout(parsed) ==
    /\ Len(parsed) = 1
    /\ parsed[1].type \notin {"interval"}
    /\ ~TruthyInt(parsed[1].repeats)

\* _resolve_sport, lines 205-208: the ValueError names the sport as given and
\* lists sorted(SPORT_NAME_TO_CODE.keys()).
SortedSportNames ==
    <<"bike", "cycling", "hike", "open_water", "pool_swim", "run", "running",
      "strength", "swim", "trail">>
UnknownSport(sport) ==
    [raised |-> TRUE, exc |-> "ValueError", msg |-> "Unknown sport",
     sport |-> sport, use |-> SortedSportNames]

\* Mutant of to_coros: every block is validated and the last error raised.
to_coros_LastInvalid(exercises, sport) ==
    LET code   == resolve_sport(sport)
        parsed == [i \in 1..Len(exercises) |-> from_dict(exercises[i])]
        bad    == {i \in 1..Len(parsed) : ~IsNone(validate(parsed[i]))}
        first  == CHOOSE i \in bad : \A j \in bad : i >= j
    IN  IF IsNone(code) THEN UnknownSport(sport)
        ELSE IF bad # {} THEN Raise("ValueError", Val(validate(parsed[first])))
        ELSE IF \E i \in 1..Len(parsed) : ~build_step_ok(parsed[i])
            THEN Raise("ValueError", "parse")
        ELSE IF IsSimpleWorkout(parsed)
            THEN Return([coros_exercises |->
                             <<build_step(parsed[1], 1, 1, Val(code), None)>>,
                         is_simple |-> TRUE])
        ELSE Return([coros_exercises |->
                         Loop(parsed, 1,
                              [coros_exercises |-> <<>>, exercise_id |-> 1,
                               sort_no |-> 1],
                              Val(code)).coros_exercises,
                     is_simple |-> FALSE])

\* Mutant of to_coros: the blocks are validated before the sport is resolved.
to_coros_ValidateFirst(exercises, sport) ==
    LET code   == resolve_sport(sport)
        parsed == [i \in 1..Len(exercises) |-> from_dict(exercises[i])]
        bad    == {i \in 1..Len(parsed) : ~IsNone(validate(parsed[i]))}
        first  == CHOOSE i \in bad : \A j \in bad : i <= j
    IN  IF bad # {} THEN Raise("ValueError", Val(validate(parsed[first])))
        ELSE IF IsNone(code) THEN UnknownSport(sport)
        ELSE IF \E i \in 1..Len(parsed) : ~build_step_ok(parsed[i])
            THEN Raise("ValueError", "parse")
        ELSE IF IsSimpleWorkout(parsed)
            THEN Return([coros_exercises |->
                             <<build_step(parsed[1], 1, 1, Val(code), None)>>,
                         is_simple |-> TRUE])
        ELSE Return([coros_exercises |->
                         Loop(parsed, 1,
                              [coros_exercises |-> <<>>, exercise_id |-> 1,
                               sort_no |-> 1],
                              Val(code)).coros_exercises,
                     is_simple |-> FALSE])

\* to_coros(exercises, sport): exercises is a list of dicts.
to_coros(exercises, sport) ==
    LET code   == resolve_sport(sport)
        parsed == [i \in 1..Len(exercises) |-> from_dict(exercises[i])]
        bad    == {i \in 1..Len(parsed) : ~IsNone(validate(parsed[i]))}
        first  == CHOOSE i \in bad : \A j \in bad : i <= j
    IN  IF IsNone(code) THEN UnknownSport(sport)
        ELSE IF bad # {} THEN Raise("ValueError", Val(validate(parsed[first])))
        ELSE IF \E i \in 1..Len(parsed) : ~build_step_ok(parsed[i])
            THEN Raise("ValueError", "parse")
        ELSE IF IsSimpleWorkout(parsed)
            THEN Return([coros_exercises |->
                             <<build_step(parsed[1], 1, 1, Val(code), None)>>,
                         is_simple |-> TRUE])
        ELSE Return([coros_exercises |->
                         Loop(parsed, 1,
                              [coros_exercises |-> <<>>, exercise_id |-> 1,
                               sort_no |-> 1],
                              Val(code)).coros_exercises,
                     is_simple |-> FALSE])

(***************************************************************************)
(* Python numbers of the decoder.  exercises.py:129 and 131 divide by an   *)
(* int (true division, binary64, nearest-even); line 131 rounds to two     *)
(* decimals with round(), which rounds the exact binary value, ties to     *)
(* even.                                                                   *)
(***************************************************************************)
\* Quotient bits and remainder of the limbs l[1..j] divided by d <= 10^5.
RECURSIVE DivLimbs(_, _, _)
DivLimbs(l, j, d) ==
    IF j = 0 THEN [q |-> <<>>, r |-> 0]
    ELSE LET p == DivLimbs(l, j - 1, d)
             t == p.r * Pow2(LimbBits) + l[j]
         IN  [q |-> p.q \o ToBitsW(t \div d, LimbBits), r |-> t % d]

\* float / int, as binary64.
FloatDiv(f, d) ==
    LET l  == Limbs(f.m)
        dv == DivLimbs(l, Len(l), d)
        q  == StripZeros(dv.q)
    IN  IF dv.r = 0 THEN [m |-> q, e |-> f.e]
        ELSE LET F   == IF q # <<>> THEN FloatPrecision - Len(q)
                        ELSE LeadZeros(dv.r, d) + FloatPrecision
                 b   == StripZeros(q \o FracBits(dv.r, d, F))
                 rem == FracRem(dv.r, d, F)
                 up  == 2 * rem > d \/ (2 * rem = d /\ b[Len(b)] = 1)
             IN  [m |-> IF up THEN IncBits(b) ELSE b, e |-> f.e - F]

\* Mutant of RoundHundredths: the hundredths are truncated, not rounded.
RoundHundredths_Truncate(f) ==
    LET p == MulBits(f.m, 100)
    IN  IF f.e >= 0 THEN FromBits(p \o ZeroBits(f.e))
        ELSE LET s      == 0 - f.e
                 ip     == IF Len(p) > s THEN FromBits(SubSeq(p, 1, Len(p) - s))
                           ELSE 0
                 guard  == IF Len(p) >= s THEN p[Len(p) - s + 1] ELSE 0
                 sticky == \E j \in (Len(p) - s + 2)..Len(p) : j >= 1 /\ p[j] = 1
                 up     == FALSE
             IN  IF up THEN ip + 1 ELSE ip

\* round(f, 2), as the number of hundredths: f * 100 is exact in bits, the
\* bits below the point decide, a tie goes to the even neighbour.
RoundHundredths(f) ==
    LET p == MulBits(f.m, 100)
    IN  IF f.e >= 0 THEN FromBits(p \o ZeroBits(f.e))
        ELSE LET s      == 0 - f.e
                 ip     == IF Len(p) > s THEN FromBits(SubSeq(p, 1, Len(p) - s))
                           ELSE 0
                 guard  == IF Len(p) >= s THEN p[Len(p) - s + 1] ELSE 0
                 sticky == \E j \in (Len(p) - s + 2)..Len(p) : j >= 1 /\ p[j] = 1
                 up     == guard = 1 /\ (sticky \/ ip % 2 = 1)
             IN  IF up THEN ip + 1 ELSE ip

\* Two Python numbers are equal (decimals of a few digits: their floats are
\* equal exactly when they are).
NumEq(a, b) == a.n * Pow10(b.k) = b.n * Pow10(a.k)

(***************************************************************************)
(* api/exercises.py: the decoder.  A record is a dict: a function on the   *)
(* keys it holds.  A decoded entry holds the keys the code assigned.       *)
(***************************************************************************)
\* dict.get(key, default).
GetOr(d, key, default) == IF key \in DOMAIN d THEN d[key] ELSE default

\* The dict of the keys of r whose value is not None, unwrapped.
Entry(r) == [key \in {f \in DOMAIN r : ~IsNone(r[f])} |-> Val(r[key])]

\* Mutant of format_pace_value: the seconds are not padded to two digits.
format_pace_value_NoPad(sec_per_km) ==
    LET sec == FloatTrunc(sec_per_km)
    IN  DecStr(sec \div 60) \o <<":">> \o DecStr(sec % 60)

\* _format_pace_value: sec_per_km is a float, int() truncates it.
format_pace_value(sec_per_km) ==
    LET sec == FloatTrunc(sec_per_km)
    IN  DecStr(sec \div 60) \o <<":">> \o Pad2(sec % 60)

\* _format_duration.
format_duration(seconds) ==
    LET h == seconds \div 3600
        m == (seconds % 3600) \div 60
        sec == seconds % 60
    IN  IF seconds <= 0 THEN <<"0", "s">>
        ELSE IF h > 0
            THEN DecStr(h) \o <<"h">> \o Pad2(m) \o <<"m">> \o Pad2(sec) \o <<"s">>
        ELSE IF m > 0 THEN DecStr(m) \o <<"m">> \o Pad2(sec) \o <<"s">>
        ELSE DecStr(sec) \o <<"s">>

\* from_coros, line 98 and 113-114: the name of an exerciseType; a missing
\* key reads as None.
exercise_types ==
    (0 :> "repeat") @@ (1 :> "warmup") @@ (2 :> "interval")
    @@ (3 :> "cooldown") @@ (4 :> "recovery")
DecodedType(ex) ==
    IF "exerciseType" \notin DOMAIN ex THEN "type_None"
    ELSE IF ex.exerciseType \in DOMAIN exercise_types
        THEN exercise_types[ex.exerciseType]
    ELSE "type_" \o ToString(ex.exerciseType)

\* ex.get("isGroup") is truthy.
IsGroupRecord(ex) == "isGroup" \in DOMAIN ex /\ ex.isGroup

\* Mutant of DecodeGroup: the rest is decoded whatever the rest type.
DecodeGroup_AnyRest(ex) ==
    Entry([type |-> Some("repeat"),
           repeats |-> Some(GetOr(ex, "sets", 1)),
           rest_seconds |->
               IF GetOr(ex, "restValue", 0) # 0
               THEN Some(ex.restValue) ELSE None])

\* Lines 105-114: the entry of a group record.
DecodeGroup(ex) ==
    Entry([type |-> Some("repeat"),
           repeats |-> Some(GetOr(ex, "sets", 1)),
           rest_seconds |->
               IF /\ "restType" \in DOMAIN ex
                  /\ ex.restType = 0
                  /\ GetOr(ex, "restValue", 0) # 0
               THEN Some(ex.restValue) ELSE None])

\* Mutant of DecodeTarget: exactly 1000 meters stay in meters.
DecodeTarget_StrictKm(ex) ==
    LET target_value == GetOr(ex, "targetValue", 0)
        is(code) == "targetType" \in DOMAIN ex /\ ex.targetType = code
        meters == FloatOf(Num(target_value, 2))
        none == [duration_seconds |-> None, duration_display |-> None,
                 distance_km |-> None, distance_m |-> None]
    IN  IF is(TargetType_DURATION) /\ target_value # 0
        THEN [none EXCEPT !.duration_seconds = Some(target_value),
                          !.duration_display =
                              Some(format_duration(target_value))]
        ELSE IF is(TargetType_DISTANCE) /\ target_value # 0
        THEN IF FloatTrunc(meters) > 1000
             THEN [none EXCEPT !.distance_km =
                       Some(Num(RoundHundredths(FloatDiv(meters, 1000)), 2))]
             ELSE [none EXCEPT !.distance_m = Some(FloatTrunc(meters))]
        ELSE none

\* Mutant of DecodeTarget: the display unit picks kilometers or meters.
DecodeTarget_ByDisplayUnit(ex) ==
    LET target_value == GetOr(ex, "targetValue", 0)
        is(code) == "targetType" \in DOMAIN ex /\ ex.targetType = code
        meters == FloatOf(Num(target_value, 2))
        none == [duration_seconds |-> None, duration_display |-> None,
                 distance_km |-> None, distance_m |-> None]
    IN  IF is(TargetType_DURATION) /\ target_value # 0
        THEN [none EXCEPT !.duration_seconds = Some(target_value),
                          !.duration_display =
                              Some(format_duration(target_value))]
        ELSE IF is(TargetType_DISTANCE) /\ target_value # 0
        THEN IF GetOr(ex, "targetDisplayUnit", 0) = TargetDisplayUnit_KILOMETERS
             THEN [none EXCEPT !.distance_km =
                       Some(Num(RoundHundredths(FloatDiv(meters, 1000)), 2))]
             ELSE [none EXCEPT !.distance_m = Some(FloatTrunc(meters))]
        ELSE none

\* Lines 120-134: the target of a step; the distance is held in centimeters.
DecodeTarget(ex) ==
    LET target_value == GetOr(ex, "targetValue", 0)
        is(code) == "targetType" \in DOMAIN ex /\ ex.targetType = code
        meters == FloatOf(Num(target_value, 2))
        none == [duration_seconds |-> None, duration_display |-> None,
                 distance_km |-> None, distance_m |-> None]
    IN  IF is(TargetType_DURATION) /\ target_value # 0
        THEN [none EXCEPT !.duration_seconds = Some(target_value),
                          !.duration_display =
                              Some(format_duration(target_value))]
        ELSE IF is(TargetType_DISTANCE) /\ target_value # 0
        THEN IF FloatTrunc(meters) >= 1000
             THEN [none EXCEPT !.distance_km =
                       Some(Num(RoundHundredths(FloatDiv(meters, 1000)), 2))]
             ELSE [none EXCEPT !.distance_m = Some(FloatTrunc(meters))]
        ELSE none

\* Lines 136-153: the intensity of a step.
DecodeIntensity(ex) ==
    LET intensity_type == GetOr(ex, "intensityType", 0)
        multiplier == GetOr(ex, "intensityMultiplier", 0)
        value == GetOr(ex, "intensityValue", 0)
        extend == GetOr(ex, "intensityValueExtend", 0)
        none == [pace_per_km |-> None, hr_bpm |-> None]
    IN  IF intensity_type = 3
        THEN IF multiplier = 1000 /\ value # 0
             THEN [none EXCEPT !.pace_per_km =
                       Some(format_pace_value(FloatOf(Num(value, 3)))
                            \o (IF extend # 0
                                THEN <<"-">> \o format_pace_value(
                                                    FloatOf(Num(extend, 3)))
                                ELSE <<>>))]
             ELSE none
        ELSE IF intensity_type = 2
        THEN IF value # 0
             THEN [none EXCEPT !.hr_bpm =
                       Some(DecStr(value)
                            \o (IF extend # 0 THEN <<"-">> \o DecStr(extend)
                                ELSE <<>>))]
             ELSE none
        ELSE none

\* Mutant of InGroup: an empty groupId counts as the id of a group.
InGroup_EmptyIsGroup(ex, groups) ==
    LET group_id == GetOr(ex, "groupId", None)
    IN  IsNone(group_id) \/ Val(group_id) \in groups

\* Lines 155-158: groups holds the ids of the group records met so far.
InGroup(ex, groups) ==
    LET group_id == GetOr(ex, "groupId", None)
    IN  ~IsNone(group_id) /\ Val(group_id) # 0 /\ Val(group_id) \in groups

\* Lines 116-160: the entry of a step record.
DecodeStep(ex, groups) ==
    LET t == DecodeTarget(ex)
        n == DecodeIntensity(ex)
    IN  Entry([type |-> Some(DecodedType(ex)),
               duration_seconds |-> t.duration_seconds,
               duration_display |-> t.duration_display,
               distance_km |-> t.distance_km,
               distance_m |-> t.distance_m,
               pace_per_km |-> n.pace_per_km,
               hr_bpm |-> n.hr_bpm,
               in_group |-> IF InGroup(ex, groups) THEN Some(TRUE) ELSE None])

\* Mutant of from_coros: a step is in a group wherever the group stands.
from_coros_AnyIndex(coros_exercises) ==
    LET n == Len(coros_exercises)
        noId == {i \in 1..n : IsGroupRecord(coros_exercises[i])
                                /\ "id" \notin DOMAIN coros_exercises[i]}
        groups == {coros_exercises[j].id :
                      j \in {h \in 1..n : IsGroupRecord(coros_exercises[h])}}
    IN  IF noId # {} THEN Raise("KeyError", "id")
        ELSE Return([i \in 1..n |->
                        IF IsGroupRecord(coros_exercises[i])
                        THEN DecodeGroup(coros_exercises[i])
                        ELSE DecodeStep(coros_exercises[i], groups)])

\* from_coros.  Line 106, groups[ex["id"]] = ex, raises KeyError for a group
\* record without "id".
from_coros(coros_exercises) ==
    LET n == Len(coros_exercises)
        noId == {i \in 1..n : IsGroupRecord(coros_exercises[i])
                                /\ "id" \notin DOMAIN coros_exercises[i]}
        groups(i) == {coros_exercises[j].id :
                         j \in {h \in 1..(i - 1) :
                                   IsGroupRecord(coros_exercises[h])}}
    IN  IF noId # {} THEN Raise("KeyError", "id")
        ELSE Return([i \in 1..n |->
                        IF IsGroupRecord(coros_exercises[i])
                        THEN DecodeGroup(coros_exercises[i])
                        ELSE DecodeStep(coros_exercises[i], groups(i))])

(***************************************************************************)
(* The inputs the model draws.                                             *)
(***************************************************************************)
MaxBlocks == 3
MaxRepeats == 3
MaxPaceMinutes == 5

\* A dict holds the keys that were given a value; "type" is always given here.
OptionalKeys ==
    {"duration_minutes", "distance_m", "distance_km", "repeats", "rest_seconds",
     "pace_per_km", "hr_bpm"}
Dict(r) ==
    [key \in {"type"} \cup {f \in OptionalKeys : r[f] # None} |-> r[key]]
Block(kind, dur, m, km, rep, rest, pace, hr) ==
    Dict([type |-> kind, duration_minutes |-> dur, distance_m |-> m,
          distance_km |-> km, repeats |-> rep, rest_seconds |-> rest,
          pace_per_km |-> pace, hr_bpm |-> hr])

\* Text of a pace "M:SS".
PaceText(p) == DecStr(p[1]) \o <<":", Digits[(p[2] \div 10) + 1],
                                 Digits[(p[2] % 10) + 1]>>
\* A range case is <<first, second>>, second None for the single form.
PaceValues == (4..MaxPaceMinutes) \X {0, 5, 30, 59}
PaceCases == PaceValues \X ({None} \cup {Some(p) : p \in PaceValues})
PaceString(c) ==
    IF IsNone(c[2]) THEN PaceText(c[1])
    ELSE PaceText(c[1]) \o <<"-">> \o PaceText(Val(c[2]))
HrValues == {90, 150, 160}
HrCases == HrValues \X ({None} \cup {Some(h) : h \in HrValues})
HrString(c) ==
    IF IsNone(c[2]) THEN DecStr(c[1])
    ELSE DecStr(c[1]) \o <<"-">> \o DecStr(Val(c[2]))

RepeatsValues == {None} \cup {Some(r) : r \in 1..MaxRepeats}
RestValues == {None, Some(0), Some(90)}
DurationValues == {Num(15, 0), Num(5, 1), Num(205, 2), Num(41, 1)}
MeterValues == {Num(400, 0), Num(1000, 0), Num(1500, 0)}
KmValues ==
    {Num(5, 0), Num(25, 1), Num(29, 2), Num(1, 3), Num(1001, 3), Num(1006, 3),
     Num(2675, 3), Num(157, 2), Num(113, 2)}
TargetValues ==
    {<<d, None, None>> : d \in {Some(x) : x \in DurationValues}}
    \cup {<<None, m, None>> : m \in {Some(x) : x \in MeterValues}}
    \cup {<<None, None, k>> : k \in {Some(x) : x \in KmValues}}

\* One block, every kind against every repeats / rest_seconds shape.
StructBlocks ==
    {Block(kind, Some(Num(15, 0)), None, None, rep, rest, None, None) :
        kind \in VALID_EXERCISE_TYPES, rep \in RepeatsValues, rest \in RestValues}
    \cup {Block("recovery", None, None, None, rep, rest, None, None) :
        rep \in RepeatsValues, rest \in RestValues}
\* One block, every target value.
TargetBlocks ==
    {Block(kind, t[1], t[2], t[3], rep, None, None, None) :
        kind \in {"warmup", "interval"}, t \in TargetValues,
        rep \in {None, Some(2)}}
\* One block, every pace and heart-rate text.
IntensityBlocks ==
    {Block("interval", None, Some(Num(1000, 0)), None, rep, None,
           Some(PaceString(c)), None) : rep \in {None, Some(2)}, c \in PaceCases}
    \cup {Block("warmup", None, Some(Num(1000, 0)), None, rep, None, None,
                Some(HrString(c))) : rep \in {None, Some(2)}, c \in HrCases}
    \cup {Block("cooldown", Some(Num(10, 0)), None, None, None, None,
                Some(PaceString(<<<<4, 30>>, None>>)),
                Some(HrString(<<150, None>>))),
          Block("interval", Some(Num(10, 0)), None, None, None, None,
                Some(<<"4", ":", "3", "0", " ", "-", " ", "5", ":", "0", "0">>),
                None)}
\* Blocks Exercise.validate rejects, one per rule.
InvalidBlocks ==
    {Block("sprint", Some(Num(5, 0)), None, None, None, None, None, None),
     Block("warmup", Some(Num(5, 0)), Some(Num(400, 0)), None, None, None, None,
           None),
     Block("warmup", None, None, None, None, None, None, None),
     Block("warmup", Some(Num(0, 0)), None, None, None, None, None, None),
     Block("interval", None, Some(Num(0, 0)), None, None, None, None, None),
     Block("interval", None, None, Some(Num(0, 1)), None, None, None, None),
     Block("interval", None, Some(Num(400, 0)), None, Some(0), None, None, None),
     Block("interval", None, Some(Num(400, 0)), None, Some(3), Some(-10), None,
           None),
     Block("interval", None, Some(Num(400, 0)), None, None, None,
           Some(<<"4", "3", "0">>), None),
     Block("interval", None, Some(Num(400, 0)), None, None, None, None,
           Some(<<"a", "b", "c">>)),
     Block("interval", None, Some(Num(400, 0)), None, None, None,
           Some(PaceText(<<4, 30>>) \o <<"-">> \o PaceText(<<5, 0>>) \o <<"-">>
                \o PaceText(<<5, 30>>)), None),
     Block("interval", None, Some(Num(400, 0)), None, None, None, None,
           Some(DecStr(150) \o <<"-">> \o DecStr(160) \o <<"-">> \o DecStr(170))),
     Block("interval", None, Some(Num(400, 0)), None, None, None,
           Some(PaceText(<<4, 30>>) \o <<"-">>), None),
     Block("interval", None, Some(Num(400, 0)), None, None, None, None,
           Some(<<>>)),
     Block("cooldown", Some(Num(-5, 0)), None, None, None, None, None, None)}
\* The blocks multi-block workouts are made of.
SeqBlocks ==
    {Block("warmup", Some(Num(15, 0)), None, None, None, None, None, None),
     Block("interval", None, Some(Num(400, 0)), None, None, None, None, None),
     Block("interval", None, Some(Num(800, 0)), None, Some(MaxRepeats), Some(90),
           None, None),
     Block("interval", None, None, Some(Num(1, 0)), Some(2), None,
           Some(PaceString(<<<<4, 30>>, Some(<<5, 0>>)>>)), None),
     Block("warmup", Some(Num(5, 0)), None, None, Some(2), Some(0), None, None),
     Block("cooldown", Some(Num(10, 0)), None, None, Some(1), None, None,
           Some(HrString(<<150, Some(160)>>))),
     Block("recovery", None, None, None, None, None, None, None)}

\* A valid block and two blocks that break different rules, for workouts
\* with invalid blocks at any position.
MixedBlocks ==
    {Block("interval", None, Some(Num(800, 0)), None, Some(2), Some(90), None,
           None),
     Block("sprint", Some(Num(5, 0)), None, None, None, None, None, None),
     Block("warmup", None, None, None, None, None, None, None)}

SeqsOf(S, lo, hi) == UNION {[1..n -> S] : n \in lo..hi}
Workouts ==
    {<<b>> : b \in StructBlocks \cup TargetBlocks \cup IntensityBlocks
                     \cup InvalidBlocks}
    \cup SeqsOf(SeqBlocks, 2, MaxBlocks)
    \cup SeqsOf(MixedBlocks, 2, MaxBlocks)
    \cup {<<>>}
Sports == {"running", "Running", "bike", "BIKE", "badminton", "Badminton", ""}
SportWorkouts == {<<b>> : b \in SeqBlocks \cup InvalidBlocks} \cup {<<>>}

\* Records handed to from_coros: a group and two steps as the service sends
\* them, each with every subset of the keys the decoder reads left out.
GroupKeys == {"isGroup", "id", "sets", "restType", "restValue"}
StepKeys ==
    {"exerciseType", "targetType", "targetValue", "intensityType",
     "intensityMultiplier", "intensityValue", "intensityValueExtend", "groupId"}
Restrict(d, keys) == [key \in DOMAIN d \cap keys |-> d[key]]
GroupRecord ==
    [isGroup |-> TRUE, id |-> 1, sets |-> 3, restType |-> RestType_TIMED,
     restValue |-> 90, exerciseType |-> ExerciseType_GROUP]
PaceStepRecord ==
    [id |-> 2, exerciseType |-> ExerciseType_INTERVAL,
     targetType |-> TargetType_DISTANCE, targetValue |-> 80000,
     intensityType |-> 3, intensityMultiplier |-> 1000,
     intensityValue |-> 270000, intensityValueExtend |-> 300000,
     groupId |-> Some(1)]
HrStepRecord ==
    [id |-> 2, exerciseType |-> ExerciseType_WARMUP,
     targetType |-> TargetType_DURATION, targetValue |-> 3725,
     intensityType |-> 2, intensityMultiplier |-> 0,
     intensityValue |-> 150, intensityValueExtend |-> 160,
     groupId |-> None]
StepRecords == {PaceStepRecord, HrStepRecord}
GroupVariants ==
    {Restrict(GroupRecord, {"exerciseType"} \cup keys) : keys \in SUBSET GroupKeys}
StepVariants ==
    {Restrict(r, {"id"} \cup keys) : r \in StepRecords, keys \in SUBSET StepKeys}
\* Records for the order of groups and their steps: two groups, and steps
\* whose groupId names a group, a step, or nothing.
OrderStep(gid) ==
    [id |-> 2, exerciseType |-> ExerciseType_INTERVAL,
     targetType |-> TargetType_DURATION, targetValue |-> 60, groupId |-> gid]
OrderRecords ==
    {[GroupRecord EXCEPT !.id = i] : i \in {1, 5}}
    \cup {OrderStep(gid) : gid \in {None, Some(1), Some(5), Some(2)}}
OrderLists ==
    {<<a, b>> : a, b \in OrderRecords}
    \cup {<<a, b, c>> : a, b, c \in OrderRecords}
\* Group records for each rest type and rest value.
RestGroups ==
    {[GroupRecord EXCEPT !.restType = t, !.restValue = v] :
        t \in {RestType_TIMED, RestType_NO_REST, 1}, v \in {0, 90}}
\* Step records for each target type, value (seconds or centimeters) and
\* display unit.
TargetCentis == {0, 60, 3725, 40000, 99950, 99999, 100000, 123400, 150000}
TargetSteps ==
    {[id |-> 1, exerciseType |-> ExerciseType_INTERVAL, targetType |-> t,
      targetValue |-> v, targetDisplayUnit |-> u, groupId |-> None] :
        t \in {TargetType_NONE, 1, TargetType_DURATION, TargetType_DISTANCE},
        v \in TargetCentis, u \in {0, 1, 2}}
RecordLists ==
    {<<r>> : r \in GroupVariants \cup StepVariants \cup RestGroups
                   \cup TargetSteps}
    \cup OrderLists
    \cup {<<g, r>> : g \in GroupVariants, r \in StepRecords}
    \cup {<<>>}

\* Dicts handed to Exercise.from_dict that name the target as a value with
\* units, alone or beside a canonical target key.
AliasUnits == {"minutes", "meters", "km"}
AliasDicts ==
    {[type |-> "interval", value |-> Some(v), units |-> u, repeats |-> Some(2)] :
        v \in {Num(2, 0), Num(800, 0), Num(15, 1)}, u \in AliasUnits}
    \cup {[type |-> "interval", value |-> Some(Num(2, 0)), units |-> u,
           duration_minutes |-> Some(Num(5, 0))] : u \in AliasUnits}
    \cup {[type |-> "interval", value |-> Some(Num(2, 0)), units |-> u,
           distance_m |-> Some(Num(400, 0))] : u \in AliasUnits}

\* Workouts whose dicts carry no "type" key, alone or after a typed block.
Untyped(d) == [key \in DOMAIN d \ {"type"} |-> d[key]]
UntypedBlocks ==
    {Untyped(b) : b \in SeqBlocks}
    \cup {Untyped(Block("interval", None, None, None, Some(2), None, None, None))}
UntypedWorkouts ==
    {<<b>> : b \in UntypedBlocks}
    \cup {<<Block("warmup", Some(Num(15, 0)), None, None, None, None, None,
                  None), b>> : b \in UntypedBlocks}

\* Strings handed to the parsers directly: paces that are not written as
\* the decoder writes them, and malformed paces and heart rates (three
\* tokens, a token that is no number, a pace token without a colon, an
\* empty token).
OddPaceStrings ==
    {<<"0", "4", ":", "3", "0">>,
     <<"4", ":", "7", "5">>,
     <<" ", "4", ":", "3", "0", " ", "-", " ", "5", ":", "0", "0">>,
     <<"0", ":", "0", "0">>,
     PaceText(<<4, 30>>) \o <<"-">> \o PaceText(<<5, 0>>) \o <<"-">>
         \o PaceText(<<5, 30>>),
     PaceText(<<4, 30>>) \o <<"-">> \o PaceText(<<5, 0>>) \o <<"-", "x">>,
     <<"a", "b", "c">>,
     <<"4", "3", "0">>,
     <<"4", ":", "x", "0">>,
     <<"4", ":", "3", ":", "0">>,
     PaceText(<<4, 30>>) \o <<"-">>,
     PaceText(<<4, 30>>) \o <<"-">> \o DecStr(300),
     <<>>}
OddHrStrings ==
    {<<" ", "1", "5", "0", " ">>,
     DecStr(150) \o <<"-">> \o DecStr(160) \o <<"-">> \o DecStr(170),
     DecStr(150) \o <<"-">> \o DecStr(160) \o <<"-", "x">>,
     <<"a", "b", "c">>,
     DecStr(150) \o <<"-", "x">>,
     DecStr(150) \o <<"-">>,
     <<>>}

Calls ==
    {[fn |-> "to_coros", exercises |-> w, sport |-> "running"] : w \in Workouts}
    \cup {[fn |-> "to_coros", exercises |-> w, sport |-> sp] :
             w \in SportWorkouts, sp \in Sports}
    \cup {[fn |-> "parse_pace", s |-> PaceString(c)] : c \in PaceCases}
    \cup {[fn |-> "parse_hr", s |-> HrString(c)] : c \in HrCases}
    \cup {[fn |-> "from_coros", coros_exercises |-> l] : l \in RecordLists}
    \cup {[fn |-> "from_dict", d |-> d] : d \in AliasDicts \cup SeqBlocks}
    \cup {[fn |-> "to_coros_untyped", exercises |-> w, sport |-> "running"] :
             w \in UntypedWorkouts}
    \cup {[fn |-> "parse_pace", s |-> x] : x \in OddPaceStrings}
    \cup {[fn |-> "parse_hr", s |-> x] : x \in OddHrStrings}

(***************************************************************************)
(* The state machine: one call of the codec, from its arguments to its     *)
(* result.                                                                 *)
(***************************************************************************)
\* globals holds the module-level tables the codec reads.
VARIABLES call, pc, result, globals
vars == <<call, pc, result, globals>>

ModuleGlobals ==
    [SPORT_NAME_TO_CODE |-> SPORT_NAME_TO_CODE,
     EXERCISE_TEMPLATES |-> EXERCISE_TEMPLATES,
     EXERCISE_TYPE_MAP |-> EXERCISE_TYPE_MAP,
     VALID_EXERCISE_TYPES |-> VALID_EXERCISE_TYPES]

Init ==
    /\ call \in Calls
    /\ pc = "call"
    /\ result = None
    /\ globals = ModuleGlobals

ToCoros ==
    /\ pc = "call"
    /\ call.fn = "to_coros"
    /\ result' = to_coros(call.exercises, call.sport)
    /\ pc' = "done"
    /\ UNCHANGED <<call, globals>>

ParsePace ==
    /\ pc = "call"
    /\ call.fn = "parse_pace"
    /\ result' = IF parse_pace_ok(call.s) THEN Return(parse_pace(call.s))
                 ELSE Raise("ValueError", "parse")
    /\ pc' = "done"
    /\ UNCHANGED <<call, globals>>

ParseHr ==
    /\ pc = "call"
    /\ call.fn = "parse_hr"
    /\ result' = IF parse_hr_ok(call.s) THEN Return(parse_hr(call.s))
                 ELSE Raise("ValueError", "parse")
    /\ pc' = "done"
    /\ UNCHANGED <<call, globals>>

\* to_coros on dicts without a "type" key (told apart by fn, as the
\* properties of the typed calls read the key).
ToCorosUntyped ==
    /\ pc = "call"
    /\ call.fn = "to_coros_untyped"
    /\ result' = to_coros(call.exercises, call.sport)
    /\ pc' = "done"
    /\ UNCHANGED <<call, globals>>

FromCoros ==
    /\ pc = "call"
    /\ call.fn = "from_coros"
    /\ result' = from_coros(call.coros_exercises)
    /\ pc' = "done"
    /\ UNCHANGED <<call, globals>>

FromDict ==
    /\ pc = "call"
    /\ call.fn = "from_dict"
    /\ result' = Return(from_dict(call.d))
    /\ pc' = "done"
    /\ UNCHANGED <<call, globals>>

\* The caller hands the records to_coros returned to from_coros.
DecodeEncoded ==
    /\ pc = "done"
    /\ call.fn = "to_coros"
    /\ ~result.raised
    /\ result' = from_coros(result.value.coros_exercises)
    /\ pc' = "decoded"
    /\ UNCHANGED <<call, globals>>

\* The caller hands from_coros a pace step that carries what parse_pace
\* returned.
PaceStep(lh) ==
    [intensityType |-> 3, intensityMultiplier |-> 1000,
     intensityValue |-> lh[1], intensityValueExtend |-> lh[2]]
DecodeParsed ==
    /\ pc = "done"
    /\ call.fn = "parse_pace"
    /\ ~result.raised
    /\ result' = from_coros(<<PaceStep(result.value)>>)
    /\ pc' = "decoded"
    /\ UNCHANGED <<call, globals>>

Next ==
    \/ ToCoros
    \/ ParsePace
    \/ ParseHr
    \/ ToCorosUntyped
    \/ FromCoros
    \/ FromDict
    \/ DecodeEncoded
    \/ DecodeParsed

Spec == Init /\ [][Next]_vars

(***************************************************************************)
(* Concurrent calls: each thread runs one call of to_coros or from_coros   *)
(* on its own arguments, a step at a time; call, pc and result are then    *)
(* functions of the thread, and result[t] holds the locals of thread t     *)
(* until the call returns or raises.                                       *)
(***************************************************************************)
NumThreads == 2
Threads == 1..NumThreads

ConcWorkouts ==
    {<<Block("interval", None, Some(Num(800, 0)), None, Some(2), Some(90), None,
              None),
       Block("warmup", Some(Num(15, 0)), None, None, None, None, None, None)>>,
     <<Block("warmup", Some(Num(15, 0)), None, None, None, None, None, None)>>,
     <<Block("cooldown", Some(Num(10, 0)), None, None, None, None, None,
              Some(HrString(<<150, Some(160)>>))),
       Block("interval", None, Some(Num(400, 0)), None, Some(2), None,
              Some(PaceString(<<<<4, 30>>, None>>)), None)>>,
     <<Block("interval", None, Some(Num(400, 0)), None, None, None, None, None),
       Block("sprint", Some(Num(5, 0)), None, None, None, None, None, None)>>}
ConcRecordLists ==
    {<<GroupRecord, PaceStepRecord, HrStepRecord>>,
     <<Restrict(GroupRecord, {"isGroup", "sets"})>>}
ConcCalls ==
    {[fn |-> "to_coros", exercises |-> w, sport |-> "running"] :
        w \in ConcWorkouts}
    \cup {[fn |-> "to_coros", exercises |-> <<>>, sport |-> "badminton"]}
    \cup {[fn |-> "from_coros", coros_exercises |-> l] : l \in ConcRecordLists}

ConcInit ==
    /\ call \in [Threads -> ConcCalls]
    /\ pc = [t \in Threads |-> "call"]
    /\ result = [t \in Threads |-> None]
    /\ globals = ModuleGlobals

\* Thread t returns or raises r.
Finish(t, r) ==
    /\ pc' = [pc EXCEPT ![t] = "done"]
    /\ result' = [result EXCEPT ![t] = r]

\* to_coros, lines 37-50: the sport, the validated blocks, the simple path,
\* and the locals of the loop.
CBegin(t) ==
    /\ pc[t] = "call"
    /\ call[t].fn = "to_coros"
    /\ LET exercises == call[t].exercises
           code   == resolve_sport(call[t].sport)
           parsed == [i \in 1..Len(exercises) |-> from_dict(exercises[i])]
           bad    == {i \in 1..Len(parsed) : ~IsNone(validate(parsed[i]))}
           first  == CHOOSE i \in bad : \A j \in bad : i <= j
       IN  IF IsNone(code) THEN Finish(t, UnknownSport(call[t].sport))
           ELSE IF bad # {}
               THEN Finish(t, Raise("ValueError", Val(validate(parsed[first]))))
           ELSE IF IsSimpleWorkout(parsed)
               THEN IF build_step_ok(parsed[1])
                    THEN Finish(t, Return([coros_exercises |->
                                               <<build_step(parsed[1], 1, 1,
                                                            Val(code), None)>>,
                                           is_simple |-> TRUE]))
                    ELSE Finish(t, Raise("ValueError", "parse"))
           ELSE /\ pc' = [pc EXCEPT ![t] = "loop"]
                /\ result' = [result EXCEPT ![t] =
                       [parsed |-> parsed, sport_code |-> Val(code), i |-> 1,
                        st |-> [coros_exercises |-> <<>>, exercise_id |-> 1,
                                sort_no |-> 1]]]
    /\ UNCHANGED <<call, globals>>

\* Mutant of CLoop: exercise_id is one counter shared by the threads that are
\* in the loop.
CLoop_SharedCounter(t) ==
    /\ pc[t] = "loop"
    /\ result[t].i <= Len(result[t].parsed)
    /\ LET f  == result[t]
           ex == f.parsed[f.i]
           ids == {result[u].st.exercise_id : u \in {v \in Threads : pc[v] = "loop"}}
           shared == CHOOSE m \in ids : \A n \in ids : n <= m
           st == [f.st EXCEPT !.exercise_id = shared]
       IN  IF ~build_step_ok(ex) THEN Finish(t, Raise("ValueError", "parse"))
           ELSE /\ result' = [result EXCEPT ![t] =
                       [f EXCEPT !.i = f.i + 1,
                                 !.st = LoopBody(ex, st, f.sport_code)]]
                /\ UNCHANGED pc
    /\ UNCHANGED <<call, globals>>

\* to_coros, lines 52-89: one turn of the loop, on the thread's own locals.
CLoop(t) ==
    /\ pc[t] = "loop"
    /\ result[t].i <= Len(result[t].parsed)
    /\ LET f  == result[t]
           ex == f.parsed[f.i]
       IN  IF ~build_step_ok(ex) THEN Finish(t, Raise("ValueError", "parse"))
           ELSE /\ result' = [result EXCEPT ![t] =
                       [f EXCEPT !.i = f.i + 1,
                                 !.st = LoopBody(ex, f.st, f.sport_code)]]
                /\ UNCHANGED pc
    /\ UNCHANGED <<call, globals>>

\* to_coros, line 91.
CReturn(t) ==
    /\ pc[t] = "loop"
    /\ result[t].i > Len(result[t].parsed)
    /\ Finish(t, Return([coros_exercises |-> result[t].st.coros_exercises,
                         is_simple |-> FALSE]))
    /\ UNCHANGED <<call, globals>>

\* from_coros, lines 100-102: the locals result and groups.
DBegin(t) ==
    /\ pc[t] = "call"
    /\ call[t].fn = "from_coros"
    /\ pc' = [pc EXCEPT ![t] = "decode"]
    /\ result' = [result EXCEPT ![t] = [i |-> 1, result |-> <<>>, groups |-> {}]]
    /\ UNCHANGED <<call, globals>>

\* from_coros, lines 104-160: one turn of the loop.
DLoop(t) ==
    /\ pc[t] = "decode"
    /\ result[t].i <= Len(call[t].coros_exercises)
    /\ LET f  == result[t]
           ex == call[t].coros_exercises[f.i]
       IN  IF IsGroupRecord(ex)
           THEN IF "id" \notin DOMAIN ex THEN Finish(t, Raise("KeyError", "id"))
                ELSE /\ result' = [result EXCEPT ![t] =
                            [i |-> f.i + 1,
                             result |-> Append(f.result, DecodeGroup(ex)),
                             groups |-> f.groups \cup {ex.id}]]
                     /\ UNCHANGED pc
           ELSE /\ result' = [result EXCEPT ![t] =
                       [f EXCEPT !.i = f.i + 1,
                                 !.result = Append(f.result,
                                                   DecodeStep(ex, f.groups))]]
                /\ UNCHANGED pc
    /\ UNCHANGED <<call, globals>>

\* from_coros, line 162.
DReturn(t) ==
    /\ pc[t] = "decode"
    /\ result[t].i > Len(call[t].coros_exercises)
    /\ Finish(t, Return(result[t].result))
    /\ UNCHANGED <<call, globals>>

ConcNext ==
    \E t \in Threads :
        \/ CBegin(t)
        \/ CLoop(t)
        \/ CReturn(t)
        \/ DBegin(t)
        \/ DLoop(t)
        \/ DReturn(t)

SpecConc == ConcInit /\ [][ConcNext]_vars

(***************************************************************************)
(* Properties of to_coros.                                                 *)
(***************************************************************************)
\* A to_coros call that returned, its records and its argument dicts.
Encoded == pc = "done" /\ call.fn = "to_coros" /\ ~result.raised
Recs == result.value.coros_exercises
Blocks == call.exercises
IsStep(r) == ~r.isGroup
HasGroup == \E i \in 1..Len(Recs) : Recs[i].isGroup

\* What the blocks' fields demand of the output, read off the dict itself:
\* whether a block is a repeat group, whether it has rest, how many records
\* it contributes and where they start.
RepeatsOf(d) == IF "repeats" \in DOMAIN d THEN d["repeats"][1] ELSE 0
RestOf(d) == IF "rest_seconds" \in DOMAIN d THEN d["rest_seconds"][1] ELSE 0
Repeating(d) == RepeatsOf(d) > 1
ExpCount(d) == IF ~Repeating(d) THEN 1 ELSE IF RestOf(d) # 0 THEN 3 ELSE 2
RECURSIVE ExpStart(_, _)
ExpStart(ds, i) ==
    IF i = 1 THEN 1 ELSE ExpStart(ds, i - 1) + ExpCount(ds[i - 1])

\* C1: the records returned by to_coros carry ids 1, 2, ..., N in array
\* order, group records included, on the simple path and the general path.
C1_SequentialIds ==
    Encoded => \A i \in 1..Len(Recs) : Recs[i].id = i
C1_Witness ==
    /\ Encoded
    /\ ~result.value.is_simple
    /\ Len(Recs) >= 5
    /\ HasGroup
    /\ \E i \in 1..Len(Recs) : IsStep(Recs[i]) /\ Recs[i].groupId = <<>>

\* C2: for every block with repeats > 1 the group record's id is the
\* groupId of the work step right after it and of the recovery step emitted
\* when rest_seconds is given, and group and work step have the same sortNo.
C2_GroupStepLinkage ==
    Encoded =>
        \A i \in 1..Len(Blocks) :
            Repeating(Blocks[i]) =>
                LET g == ExpStart(Blocks, i)
                IN  /\ g + 1 <= Len(Recs)
                    /\ Recs[g].isGroup
                    /\ IsStep(Recs[g + 1])
                    /\ Recs[g + 1].groupId = Some(Recs[g].id)
                    /\ Recs[g + 1].sortNo = Recs[g].sortNo
                    /\ RestOf(Blocks[i]) # 0 =>
                           /\ g + 2 <= Len(Recs)
                           /\ IsStep(Recs[g + 2])
                           /\ Recs[g + 2].exerciseType = ExerciseType_RECOVERY
                           /\ Recs[g + 2].groupId = Some(Recs[g].id)
C2_Witness ==
    /\ Encoded
    /\ Len(Blocks) >= 2
    /\ Repeating(Blocks[2]) /\ RestOf(Blocks[2]) # 0
    /\ Len(Recs) >= ExpStart(Blocks, 2) + 2
    /\ Recs[ExpStart(Blocks, 2) + 2].groupId = Some(Recs[ExpStart(Blocks, 2)].id)

\* C3: the first record has sortNo 1; every later record has the previous
\* record's sortNo + 1, except the work step right after its group record,
\* which has the group's sortNo.
C3_SortNoSequence ==
    Encoded =>
        \A i \in 1..Len(Recs) :
            IF i = 1 THEN Recs[i].sortNo = 1
            ELSE IF Recs[i - 1].isGroup
                THEN IsStep(Recs[i]) /\ Recs[i].sortNo = Recs[i - 1].sortNo
            ELSE Recs[i].sortNo = Recs[i - 1].sortNo + 1
C3_Witness ==
    /\ Encoded
    /\ Len(Blocks) >= 3
    /\ Repeating(Blocks[1]) /\ RestOf(Blocks[1]) # 0
    /\ Repeating(Blocks[2]) /\ RestOf(Blocks[2]) = 0
    /\ Recs[Len(Recs)].sortNo = Len(Recs) - 2

\* C4: a step's groupId, when set, is the id of a group record at a strictly
\* earlier index; a group record has no groupId key; the step of a block
\* without repeats > 1 has the empty groupId.
C4_GroupIdRefersBack ==
    Encoded =>
        /\ \A i \in 1..Len(Recs) :
              IF Recs[i].isGroup THEN "groupId" \notin DOMAIN Recs[i]
              ELSE /\ "groupId" \in DOMAIN Recs[i]
                   /\ Recs[i].groupId # <<>> =>
                          \E j \in 1..(i - 1) :
                              Recs[j].isGroup /\ Some(Recs[j].id) = Recs[i].groupId
        /\ \A b \in 1..Len(Blocks) :
              ~Repeating(Blocks[b]) =>
                  /\ ExpStart(Blocks, b) <= Len(Recs)
                  /\ IsStep(Recs[ExpStart(Blocks, b)])
                  /\ Recs[ExpStart(Blocks, b)].groupId = <<>>
C4_Witness ==
    /\ Encoded
    /\ Len(Blocks) >= 3
    /\ Repeating(Blocks[1]) /\ ~Repeating(Blocks[2]) /\ Repeating(Blocks[3])
    /\ \E i \in 1..Len(Recs) : IsStep(Recs[i]) /\ Recs[i].groupId = Some(4)

\* C5: is_simple is true exactly when the input is one block whose kind is
\* not interval and which has no repeats key; the output is then one step
\* with id 1, sortNo 1, isGroup false.
SimpleShape(ds) ==
    Len(ds) = 1 /\ ds[1]["type"] # "interval" /\ "repeats" \notin DOMAIN ds[1]
C5_SimpleIff ==
    Encoded =>
        /\ result.value.is_simple <=> SimpleShape(Blocks)
        /\ result.value.is_simple =>
              /\ Len(Recs) = 1
              /\ IsStep(Recs[1])
              /\ Recs[1].id = 1
              /\ Recs[1].sortNo = 1
C5_Witness ==
    /\ Encoded
    /\ result.value.is_simple
    /\ Blocks[1]["type"] = "recovery"
    /\ Len(Recs) = 1

\* The record of block i that encodes the block itself: its only step, or
\* the work step after its group record.
StepOf(i) ==
    Recs[ExpStart(Blocks, i) + (IF Repeating(Blocks[i]) THEN 1 ELSE 0)]
ExpLen(ds) == ExpStart(ds, Len(ds) + 1) - 1
SingleNonInterval ==
    Encoded /\ Len(Blocks) = 1 /\ Blocks[1]["type"] # "interval"

\* C6 as stated: one non-interval block that is not expanded into a repeat
\* group (repeats absent or repeats = 1) yields is_simple = TRUE and one
\* record with the empty groupId.
C6_AsStated ==
    SingleNonInterval /\ ~Repeating(Blocks[1]) =>
        /\ result.value.is_simple
        /\ Len(Recs) = 1
        /\ IsStep(Recs[1]) /\ Recs[1].groupId = <<>>

\* C6, amended: one non-interval block that is not expanded into a repeat
\* group yields one step record with the empty groupId; is_simple is TRUE
\* when repeats is absent and FALSE when repeats = 1.
C6_SingleBlockShortcut ==
    SingleNonInterval /\ ~Repeating(Blocks[1]) =>
        /\ Len(Recs) = 1
        /\ IsStep(Recs[1]) /\ Recs[1].groupId = <<>>
        /\ "repeats" \notin DOMAIN Blocks[1] => result.value.is_simple
        /\ RepeatsOf(Blocks[1]) = 1 => ~result.value.is_simple
C6_Witness ==
    /\ SingleNonInterval
    /\ RepeatsOf(Blocks[1]) = 1
    /\ Blocks[1]["type"] = "warmup"
    /\ Len(Recs) = 1
    /\ ~result.value.is_simple

\* The codes the claims give to the four kinds.
KindCode(kind) ==
    CASE kind = "warmup" -> 1
      [] kind = "interval" -> 2
      [] kind = "cooldown" -> 3
      [] kind = "recovery" -> 4
\* Record r has the target and intensity fields that block d has when it is
\* encoded as a plain step.
CarriesTargetAndIntensity(r, d) ==
    LET q == build_step(from_dict(d), r.id, r.sortNo, r.sportType, None)
    IN  /\ \A f \in {"targetType", "targetValue", "targetDisplayUnit",
                     "intensityType", "intensityValue", "intensityValueExtend",
                     "intensityMultiplier"} : r[f] = q[f]
        /\ r.targetType =
               (IF "duration_minutes" \in DOMAIN d THEN 2
                ELSE IF {"distance_m", "distance_km"} \cap DOMAIN d # {} THEN 5
                ELSE 0)
        /\ r.intensityType =
               (IF "pace_per_km" \in DOMAIN d THEN 3
                ELSE IF "hr_bpm" \in DOMAIN d THEN 2 ELSE 0)

\* C7: on the general path a block with repeats > 1 gives a group record
\* with sets = repeats, immediately followed by a work step of type interval
\* (2) whatever the block's kind, carrying the block's target and intensity;
\* any other block gives exactly one step whose type is the block's kind.
C7_BlockExpansion ==
    Encoded /\ ~result.value.is_simple =>
        /\ Len(Recs) = ExpLen(Blocks)
        /\ \A i \in 1..Len(Blocks) :
              LET g == ExpStart(Blocks, i)
                  d == Blocks[i]
              IN  IF Repeating(d)
                  THEN /\ Recs[g].isGroup
                       /\ Recs[g].sets = RepeatsOf(d)
                       /\ IsStep(Recs[g + 1])
                       /\ Recs[g + 1].exerciseType = 2
                       /\ CarriesTargetAndIntensity(Recs[g + 1], d)
                  ELSE /\ IsStep(Recs[g])
                       /\ Recs[g].exerciseType = KindCode(d["type"])
                       /\ g < Len(Recs) =>
                              Recs[g + 1].isGroup \/ Recs[g + 1].groupId = <<>>
C7_Witness ==
    /\ Encoded
    /\ Len(Blocks) >= 2
    /\ Blocks[1]["type"] = "warmup" /\ Repeating(Blocks[1])
    /\ Recs[2].exerciseType = 2
    /\ Blocks[2]["type"] = "cooldown" /\ ~Repeating(Blocks[2])
    /\ Recs[Len(Recs)].exerciseType = 3

\* C8: a block with repeats > 1 gets a recovery step (type recovery, target
\* duration of rest_seconds, the work step's groupId) exactly when
\* rest_seconds is given and nonzero, and its group then has restType 0 and
\* restValue = rest_seconds; otherwise the group has restType 3, restValue 0
\* and the block contributes just the group and the work step.
RecoveryEmitted(g) ==
    /\ g + 2 <= Len(Recs)
    /\ IsStep(Recs[g + 2])
    /\ Recs[g + 2].groupId = Some(Recs[g].id)
C8_RecoveryIffRest ==
    Encoded =>
        /\ Len(Recs) = ExpLen(Blocks)
        /\ \A i \in 1..Len(Blocks) :
              Repeating(Blocks[i]) =>
                  LET g    == ExpStart(Blocks, i)
                      rest == RestOf(Blocks[i])
                  IN  /\ Recs[g].isGroup
                      /\ RecoveryEmitted(g) <=> rest # 0
                      /\ rest # 0 =>
                             /\ Recs[g].restType = 0
                             /\ Recs[g].restValue = rest
                             /\ Recs[g + 2].exerciseType = 4
                             /\ Recs[g + 2].targetType = 2
                             /\ Recs[g + 2].targetValue = rest
                             /\ Recs[g + 2].groupId = Recs[g + 1].groupId
                      /\ rest = 0 =>
                             /\ Recs[g].restType = 3
                             /\ Recs[g].restValue = 0
C8_Witness ==
    /\ Encoded
    /\ Len(Blocks) = 1
    /\ Repeating(Blocks[1])
    /\ "rest_seconds" \in DOMAIN Blocks[1] /\ RestOf(Blocks[1]) = 0
    /\ Len(Recs) = 2
    /\ Recs[1].restType = 3

\* C9: the step of a block encodes duration_minutes = D as targetType 2,
\* targetValue = D * 60, unit 0; distance_m = N as targetType 5,
\* targetValue = N * 100, unit 1; distance_km = K as targetType 5,
\* targetValue = K * 100000, unit 2; a block without target keeps 0 and 0.
\* A number is n / 10^k, so value = x * c reads value * 10^k = n * c.
TargetIs(r, type, x, c, unit) ==
    /\ r.targetType = type
    /\ r.targetValue * Pow10(x.k) = x.n * c
    /\ r.targetDisplayUnit = unit
C9_TargetEncoding ==
    Encoded =>
        \A i \in 1..Len(Blocks) :
            LET d == Blocks[i]
                r == StepOf(i)
            IN  IF "duration_minutes" \in DOMAIN d
                    THEN TargetIs(r, 2, d["duration_minutes"][1], 60, 0)
                ELSE IF "distance_m" \in DOMAIN d
                    THEN TargetIs(r, 5, d["distance_m"][1], 100, 1)
                ELSE IF "distance_km" \in DOMAIN d
                    THEN TargetIs(r, 5, d["distance_km"][1], 100000, 2)
                ELSE r.targetType = 0 /\ r.targetValue = 0

\* C10: parse_pace returns (low, high) = ((M * 60 + SS) * 1000 of the first
\* value, of the second value or of the first again), parse_hr the BPM
\* values likewise, in the order given; a step with a pace has
\* intensityType 3, these two values and multiplier 1000; a step with a
\* heart rate and no pace has intensityType 2, the BPM values, multiplier 0.
PaceMs(p) == (p[1] * 60 + p[2]) * 1000
PacePair(c) == <<PaceMs(c[1]), IF IsNone(c[2]) THEN PaceMs(c[1]) ELSE PaceMs(Val(c[2]))>>
HrPair(c) == <<c[1], IF IsNone(c[2]) THEN c[1] ELSE Val(c[2])>>
IntensityIs(r, type, pair, mult) ==
    /\ r.intensityType = type
    /\ r.intensityValue = pair[1]
    /\ r.intensityValueExtend = pair[2]
    /\ r.intensityMultiplier = mult
C10_PaceHrEncoding ==
    /\ pc = "done" /\ call.fn = "parse_pace" =>
          \A c \in PaceCases :
              call.s = PaceString(c) =>
                  ~result.raised /\ result.value = PacePair(c)
    /\ pc = "done" /\ call.fn = "parse_hr" =>
          \A c \in HrCases :
              call.s = HrString(c) => ~result.raised /\ result.value = HrPair(c)
    /\ Encoded =>
          \A i \in 1..Len(Blocks) :
              LET d == Blocks[i]
              IN  /\ "pace_per_km" \in DOMAIN d =>
                         \A c \in PaceCases :
                             d["pace_per_km"][1] = PaceString(c) =>
                                 IntensityIs(StepOf(i), 3, PacePair(c), 1000)
                  /\ "hr_bpm" \in DOMAIN d /\ "pace_per_km" \notin DOMAIN d =>
                         \A c \in HrCases :
                             d["hr_bpm"][1] = HrString(c) =>
                                 IntensityIs(StepOf(i), 2, HrPair(c), 0)
C10_Witness ==
    /\ Encoded
    /\ Len(Blocks) = 1
    /\ "pace_per_km" \in DOMAIN Blocks[1]
    /\ Blocks[1]["pace_per_km"][1] = PaceString(<<<<5, 0>>, Some(<<4, 30>>)>>)
    /\ StepOf(1).intensityValue = 300000
    /\ StepOf(1).intensityValueExtend = 270000
    /\ StepOf(1).intensityMultiplier = 1000

(***************************************************************************)
(* Properties of the round trip to_coros, then from_coros.                 *)
(***************************************************************************)
\* A to_coros call whose records were decoded, the decoded entries, and the
\* entry of the step of block i (the work step, for a repeat group).
Decoded == pc = "decoded" /\ call.fn = "to_coros" /\ ~result.raised
Entries == result.value
EntryOf(i) ==
    Entries[ExpStart(Blocks, i) + (IF Repeating(Blocks[i]) THEN 1 ELSE 0)]
HasMeters(d) == "distance_m" \in DOMAIN d /\ d["distance_m"][1].k = 0
MetersOf(d) == d["distance_m"][1].n
Abs(n) == IF n < 0 THEN 0 - n ELSE n

\* C11 as stated: a block with distance_m = N decodes to distance_m = N,
\* for N below 1000 and for N at or above 1000.
C11_AsStated ==
    Decoded =>
        \A i \in 1..Len(Blocks) :
            HasMeters(Blocks[i]) =>
                /\ "distance_m" \in DOMAIN EntryOf(i)
                /\ EntryOf(i).distance_m = MetersOf(Blocks[i])

\* C11: a block with distance_m = N, a positive integer, decodes to
\* distance_m = N when N < 1000; when N >= 1000 the entry has no distance_m
\* and carries distance_km, N / 1000 rounded to two decimals.
C11_MetersRoundTrip ==
    Decoded =>
        \A i \in 1..Len(Blocks) :
            HasMeters(Blocks[i]) =>
                LET N == MetersOf(Blocks[i])
                    e == EntryOf(i)
                IN  IF N < 1000
                    THEN /\ "distance_m" \in DOMAIN e
                         /\ e.distance_m = N
                         /\ "distance_km" \notin DOMAIN e
                    ELSE /\ "distance_m" \notin DOMAIN e
                         /\ "distance_km" \in DOMAIN e
                         /\ e.distance_km.k = 2
                         /\ Abs(e.distance_km.n * 10 - N) <= 5
C11_Witness ==
    /\ Decoded
    /\ Len(Blocks) = 1
    /\ HasMeters(Blocks[1])
    /\ MetersOf(Blocks[1]) = 1500
    /\ "distance_m" \notin DOMAIN EntryOf(1)
    /\ EntryOf(1).distance_km = Num(150, 2)

\* A distance_km = K given to whole centimeters, and K in centimeters.
HasKm(d) == "distance_km" \in DOMAIN d /\ d["distance_km"][1].k <= 5
KmOf(d) == d["distance_km"][1]
CmOf(d) == KmOf(d).n * Pow10(5 - KmOf(d).k)

\* C12 as stated: a block with distance_km = K decodes to distance_km = K,
\* for K below 1 km and for K at or above 1 km.
C12_AsStated ==
    Decoded =>
        \A i \in 1..Len(Blocks) :
            HasKm(Blocks[i]) =>
                /\ "distance_km" \in DOMAIN EntryOf(i)
                /\ NumEq(EntryOf(i).distance_km, KmOf(Blocks[i]))

\* C12: a block with distance_km = K decodes, when K >= 1, to distance_km
\* only: K itself when K has at most two decimals, and otherwise a number of
\* two decimals within 0.005 km (and the centimeter int() may drop) of K;
\* when K < 1 it decodes to distance_m only, the whole meters of the
\* encoded centimeters (1000 * K, or one less).
C12_KmRoundTrip ==
    Decoded =>
        \A i \in 1..Len(Blocks) :
            HasKm(Blocks[i]) =>
                LET cm == CmOf(Blocks[i])
                    e  == EntryOf(i)
                IN  IF cm >= 100000
                    THEN /\ "distance_m" \notin DOMAIN e
                         /\ "distance_km" \in DOMAIN e
                         /\ e.distance_km.k = 2
                         /\ Abs(e.distance_km.n * 1000 - cm) <= 501
                         /\ cm % 1000 = 0 =>
                                NumEq(e.distance_km, KmOf(Blocks[i]))
                    ELSE /\ "distance_km" \notin DOMAIN e
                         /\ "distance_m" \in DOMAIN e
                         /\ e.distance_m * 100 <= cm
                         /\ cm - e.distance_m * 100 <= 100
C12_Witness ==
    /\ Decoded
    /\ Len(Blocks) = 1
    /\ HasKm(Blocks[1])
    /\ KmOf(Blocks[1]) = Num(1006, 3)
    /\ EntryOf(1).distance_km = Num(101, 2)

(***************************************************************************)
(* Properties of the parsers and their round trip.                         *)
(***************************************************************************)
\* A parse_pace call whose values were decoded from a pace step.
PaceDecoded == pc = "decoded" /\ call.fn = "parse_pace" /\ ~result.raised
DecodedPace == result.value[1].pace_per_km

\* C13 as stated: parse_pace(x), then the decoder's formatting, gives x back
\* for the single form and for the range form.
C13_AsStated ==
    PaceDecoded =>
        \A c \in PaceCases :
            call.s = PaceString(c) =>
                /\ "pace_per_km" \in DOMAIN result.value[1]
                /\ DecodedPace = call.s

\* C13: for a pace x written as the decoder writes one (minutes without
\* leading zeros, two-digit seconds below 60, no blanks, not zero),
\* parse_pace(x) then the decoder's formatting gives x back when x is a
\* range "M:SS-M:SS", and gives the range "x-x" when x is the single form.
C13_PaceRoundTrip ==
    PaceDecoded =>
        \A c \in PaceCases :
            call.s = PaceString(c) =>
                /\ "pace_per_km" \in DOMAIN result.value[1]
                /\ DecodedPace =
                       IF IsNone(c[2]) THEN PaceString(<<c[1], Some(c[1])>>)
                       ELSE call.s
C13_Witness ==
    /\ PaceDecoded
    /\ call.s = <<"4", ":", "0", "5">>
    /\ DecodedPace = <<"4", ":", "0", "5", "-", "4", ":", "0", "5">>

(***************************************************************************)
(* Properties of validation and of the errors of to_coros.                 *)
(***************************************************************************)
\* The rules of a valid block, read off the dict: a pace token is "M:SS", a
\* heart-rate token an integer, and a string is one token or two tokens
\* separated by one hyphen.
PaceToken(t) ==
    LET ms == Split(Strip(t), ":")
    IN  Len(ms) = 2 /\ IntOk(ms[1]) /\ IntOk(ms[2])
HrToken(t) == IntOk(t)
PaceWellFormed(s) ==
    LET ts == Split(s, "-")
    IN  Len(ts) \in {1, 2} /\ \A i \in 1..Len(ts) : PaceToken(ts[i])
HrWellFormed(s) ==
    LET ts == Split(s, "-")
    IN  Len(ts) \in {1, 2} /\ \A i \in 1..Len(ts) : HrToken(ts[i])
TargetKeys == {"duration_minutes", "distance_m", "distance_km"}
ViolatesRule(d) ==
    LET targets == TargetKeys \cap DOMAIN d
    IN  \/ d["type"] \notin {"warmup", "interval", "cooldown", "recovery"}
        \/ Cardinality(targets) > 1
        \/ targets = {} /\ d["type"] # "recovery"
        \/ \E f \in targets : d[f][1].n <= 0
        \/ "repeats" \in DOMAIN d /\ d["repeats"][1] < 1
        \/ "rest_seconds" \in DOMAIN d /\ d["rest_seconds"][1] < 0
        \/ "pace_per_km" \in DOMAIN d /\ ~PaceWellFormed(d["pace_per_km"][1])
        \/ "hr_bpm" \in DOMAIN d /\ ~HrWellFormed(d["hr_bpm"][1])

\* A to_coros call, of a known sport, that has run; it was stopped by
\* Exercise.validate.
Validated ==
    /\ pc = "done"
    /\ call.fn = "to_coros"
    /\ ~(result.raised /\ result.msg = "Unknown sport")
Rejected ==
    /\ result.raised
    /\ result.exc = "ValueError"
    /\ result.msg \notin {"Unknown sport", "parse"}

\* C14: Exercise.validate, run by to_coros on the blocks in order, rejects
\* exactly when a block violates a rule (kind, more than one target, no
\* target unless recovery, target <= 0, repeats < 1, rest_seconds < 0, pace
\* or heart rate not one or two well-formed tokens); blocks that violate no
\* rule, a targetless recovery block included, are accepted.
C14_ValidateIff ==
    Validated =>
        (Rejected <=> \E i \in 1..Len(Blocks) : ViolatesRule(Blocks[i]))
C14_Witness ==
    /\ Validated
    /\ Len(Blocks) = 1
    /\ "hr_bpm" \in DOMAIN Blocks[1]
    /\ Len(Split(Blocks[1]["hr_bpm"][1], "-")) = 3
    /\ Rejected
    /\ result.msg = "Invalid HR"

\* The error a block raises when validated on its own.
ErrorOf(d) == Val(validate(from_dict(d)))
Invalid(ds) == {i \in 1..Len(ds) : ViolatesRule(ds[i])}
FirstInvalid(ds) == CHOOSE i \in Invalid(ds) : \A j \in Invalid(ds) : i <= j

\* C15: when a block of the input is invalid, at whatever position, to_coros
\* raises the error of the first invalid block in input order and returns
\* nothing, the records of the valid blocks before it included.
C15_FailFast ==
    Validated /\ Invalid(Blocks) # {} =>
        /\ result.raised
        /\ result.exc = "ValueError"
        /\ result.msg = ErrorOf(Blocks[FirstInvalid(Blocks)])
        /\ "value" \notin DOMAIN result
C15_Witness ==
    /\ Validated
    /\ Len(Blocks) = 3
    /\ Invalid(Blocks) = {2, 3}
    /\ Blocks[2]["type"] = "warmup"
    /\ Blocks[3]["type"] = "sprint"
    /\ result.raised
    /\ result.msg = "requires a target"

\* A to_coros call that has run.
Ran == pc = "done" /\ call.fn = "to_coros"
NamesSportAndLists ==
    /\ result.raised
    /\ result.exc = "ValueError"
    /\ result.msg = "Unknown sport"
    /\ result.sport = call.sport
    /\ {result.use[i] : i \in 1..Len(result.use)} = DOMAIN SPORT_NAME_TO_CODE
    /\ "value" \notin DOMAIN result

\* C16 as stated: every sport string that is not a key of the sport table
\* makes to_coros fail with the error naming it and listing the valid names.
C16_AsStated ==
    Ran /\ call.sport \notin DOMAIN SPORT_NAME_TO_CODE => NamesSportAndLists

\* C16: every sport string that, lower-cased, is not a key of the sport
\* table makes to_coros fail with an error that names the sport as given and
\* lists the valid names, with no records, whatever the blocks are; a name
\* that differs from a key by case only is accepted.
C16_UnknownSport ==
    Ran =>
        /\ Lower(call.sport) \notin DOMAIN SPORT_NAME_TO_CODE =>
               NamesSportAndLists
        /\ Lower(call.sport) \in DOMAIN SPORT_NAME_TO_CODE =>
               ~(result.raised /\ result.msg = "Unknown sport")
C16_Witness ==
    /\ Ran
    /\ call.sport = "Badminton"
    /\ Len(Blocks) = 1
    /\ ViolatesRule(Blocks[1])
    /\ NamesSportAndLists

\* C17: parse_pace and parse_hr, called directly, raise a format error and
\* return no value for every malformed string: three or more tokens, a
\* token that is no number, a pace token without a colon.
C17_MalformedRejected ==
    /\ pc = "done" /\ call.fn = "parse_pace" /\ ~PaceWellFormed(call.s) =>
           result.raised /\ result.exc = "ValueError"
    /\ pc = "done" /\ call.fn = "parse_hr" /\ ~HrWellFormed(call.s) =>
           result.raised /\ result.exc = "ValueError"

(***************************************************************************)
(* Properties of from_coros.                                               *)
(***************************************************************************)
\* C18: from_coros never raises on missing keys: whatever keys the records,
\* groups or steps, lack, it returns a list with one entry per record, and
\* an entry holds only the keys that could be resolved.
C18_LenientDecode ==
    pc = "done" /\ call.fn = "from_coros" =>
        /\ ~result.raised
        /\ Len(result.value) = Len(call.coros_exercises)
        /\ \A i \in 1..Len(result.value) : "type" \in DOMAIN result.value[i]

(***************************************************************************)
(* Properties of Exercise.from_dict.                                       *)
(***************************************************************************)
\* The target field a unit names.
UnitField(u) ==
    CASE u = "minutes" -> "duration_minutes"
      [] u = "meters" -> "distance_m"
      [] u = "km" -> "distance_km"

\* C20: Exercise.from_dict reads a {value, units} pair as the target the
\* units name (minutes, meters, km) when the dict has no canonical target
\* key, the other targets staying unset; a canonical target key takes
\* precedence and the pair is ignored.
C20_ValueUnitsAlias ==
    /\ pc = "done"
    /\ call.fn = "from_dict"
    /\ "value" \in DOMAIN call.d
    /\ "units" \in DOMAIN call.d
    => LET d == call.d
           ex == result.value
       IN  IF TargetKeys \cap DOMAIN d = {}
           THEN \A f \in TargetKeys :
                    ex[f] = IF f = UnitField(d["units"]) THEN d["value"]
                            ELSE None
           ELSE \A f \in TargetKeys : ex[f] = Get(d, f)

(***************************************************************************)
(* Properties of concurrent calls.                                         *)
(***************************************************************************)
\* What a call returns or raises when it runs alone.
Alone(c) ==
    IF c.fn = "to_coros" THEN to_coros(c.exercises, c.sport)
    ELSE from_coros(c.coros_exercises)

\* C19: in every interleaving of the steps of concurrent to_coros and
\* from_coros calls, each on its own arguments, a call that ends has the
\* result it has alone (ids and sortNo from 1), and no step changes a call's
\* arguments or a module-level table.
C19_Isolation ==
    /\ [](\A t \in Threads : pc[t] = "done" => result[t] = Alone(call[t]))
    /\ [](globals = ModuleGlobals)
    /\ [][call' = call /\ globals' = globals]_vars
C19_Witness ==
    /\ pc[1] = "done"
    /\ call[1].fn = "to_coros"
    /\ ~result[1].raised
    /\ Len(result[1].value.coros_exercises) = 4
    /\ result[1].value.coros_exercises[4].id = 4
    /\ pc[2] = "loop"
    /\ call[2] = call[1]
    /\ result[2].i = 2
    /\ result[2].st.exercise_id = 4

(***************************************************************************)
(* Properties of the kind of a block.                                      *)
(***************************************************************************)
KindTags == {"warmup", "interval", "cooldown", "recovery"}
InvalidKindError ==
    /\ result.raised
    /\ result.exc = "ValueError"
    /\ result.msg = "Invalid exercise type"
\* A to_coros call on dicts without a "type" key that has run.
RanUntyped == pc = "done" /\ call.fn = "to_coros_untyped"
BadKindFirst ==
    /\ Validated
    /\ Invalid(Blocks) # {}
    /\ Blocks[FirstInvalid(Blocks)]["type"] \notin KindTags
\* The dicts ds, each given the kind k when it has none.
WithKind(ds, k) ==
    [i \in 1..Len(ds) |->
        [key \in DOMAIN ds[i] \cup {"type"} |->
            IF key \in DOMAIN ds[i] THEN ds[i][key] ELSE k]]

\* C21 as stated: a block whose kind is none of the four tags, and a dict
\* with no kind at all, are rejected with the invalid-kind error.
C21_AsStated ==
    /\ BadKindFirst => InvalidKindError
    /\ RanUntyped => InvalidKindError

\* C21: a block whose kind is none of the four tags is rejected with the
\* invalid-kind error; a dict with no "type" key is taken as an interval
\* block: the call gives what it gives with "type": "interval" written in
\* (encoded as an interval step when valid, never the invalid-kind error).
C21_KindOrInterval ==
    /\ BadKindFirst => InvalidKindError
    /\ RanUntyped =>
           /\ result = to_coros(WithKind(call.exercises, "interval"), call.sport)
           /\ ~InvalidKindError
           /\ ~result.raised /\ Len(call.exercises) = 1 =>
                  /\ ~result.value.is_simple
                  /\ \E i \in 1..Len(result.value.coros_exercises) :
                         LET r == result.value.coros_exercises[i]
                         IN  ~r.isGroup /\ r.exerciseType = ExerciseType_INTERVAL
C21_Witness ==
    /\ RanUntyped
    /\ call.exercises = <<[duration_minutes |-> Some(Num(15, 0))]>>
    /\ ~result.raised
    /\ ~result.value.is_simple
    /\ result.value.coros_exercises[1].exerciseType = ExerciseType_INTERVAL
    /\ result.value.coros_exercises[1].targetValue = 900

(***************************************************************************)
(* Properties of from_coros on the records it is handed.                   *)
(***************************************************************************)
\* A from_coros call that has returned, its records and its entries.
DecodedRecords == pc = "done" /\ call.fn = "from_coros" /\ ~result.raised
Given == call.coros_exercises
Out == result.value
Marked(entry) == "in_group" \in DOMAIN entry /\ entry["in_group"] = TRUE
\* Record i names, as its groupId, the id of a group record before it.
GroupBefore(recs, i) ==
    /\ "groupId" \in DOMAIN recs[i]
    /\ \E j \in 1..(i - 1) :
           IsGroupRecord(recs[j]) /\ recs[i].groupId = Some(recs[j].id)

\* C22: from_coros gives one entry per record, in array order, and marks a
\* step in_group exactly when its groupId is the id of a group record at a
\* strictly earlier index; a group entry is never marked.
C22_InGroupIffEarlierGroup ==
    DecodedRecords =>
        /\ Len(Out) = Len(Given)
        /\ \A i \in 1..Len(Given) :
               IF IsGroupRecord(Given[i])
               THEN "in_group" \notin DOMAIN Out[i]
               ELSE /\ Marked(Out[i]) <=> GroupBefore(Given, i)
                    /\ "in_group" \in DOMAIN Out[i] => Marked(Out[i])
C22_Witness ==
    /\ DecodedRecords
    /\ Len(Given) = 3
    /\ ~IsGroupRecord(Given[1]) /\ Given[1].groupId = Some(5)
    /\ IsGroupRecord(Given[2]) /\ Given[2].id = 5
    /\ ~IsGroupRecord(Given[3]) /\ Given[3].groupId = Some(5)
    /\ ~Marked(Out[1])
    /\ Marked(Out[3])

\* C23: a group record decodes to an entry of type "repeat" with repeats =
\* sets, and with rest_seconds = restValue exactly when restType is the
\* timed code and restValue is nonzero.
C23_GroupEntry ==
    DecodedRecords =>
        \A i \in 1..Len(Given) :
            IsGroupRecord(Given[i]) =>
                LET g == Given[i]
                    timed == /\ "restType" \in DOMAIN g
                             /\ g.restType = RestType_TIMED
                             /\ "restValue" \in DOMAIN g
                             /\ g.restValue # 0
                IN  /\ Out[i]["type"] = "repeat"
                    /\ "sets" \in DOMAIN g => Out[i]["repeats"] = g.sets
                    /\ "rest_seconds" \in DOMAIN Out[i] <=> timed
                    /\ timed => Out[i]["rest_seconds"] = g.restValue
                    /\ DOMAIN Out[i] \subseteq {"type", "repeats", "rest_seconds"}
C23_Witness ==
    /\ DecodedRecords
    /\ Len(Given) = 1
    /\ IsGroupRecord(Given[1])
    /\ Given[1] = [GroupRecord EXCEPT !.restType = RestType_NO_REST]
    /\ Out[1]["repeats"] = 3
    /\ "rest_seconds" \notin DOMAIN Out[1]

\* The target a step record carries, when it has both keys.
HasTarget(r, code) ==
    /\ "targetType" \in DOMAIN r
    /\ r.targetType = code
    /\ "targetValue" \in DOMAIN r
    /\ r.targetValue # 0
TargetEntryKeys ==
    {"duration_seconds", "duration_display", "distance_km", "distance_m"}

\* C24 as stated: a distance of V centimeters decodes to distance_km =
\* V / 100000 when V / 100 >= 1000 and to distance_m = V / 100 otherwise.
C24_AsStated ==
    DecodedRecords =>
        \A i \in 1..Len(Given) :
            ~IsGroupRecord(Given[i]) /\ HasTarget(Given[i], TargetType_DISTANCE) =>
                LET V == Given[i].targetValue
                IN  IF V >= 100000
                    THEN /\ "distance_km" \in DOMAIN Out[i]
                         /\ NumEq(Out[i]["distance_km"], Num(V, 5))
                    ELSE /\ "distance_m" \in DOMAIN Out[i]
                         /\ Out[i]["distance_m"] * 100 = V

\* C24: a step record decodes to at most one target: a nonzero duration to
\* duration_seconds = value with its duration_display; a nonzero distance
\* of V centimeters to distance_km, V / 100000 rounded to two decimals,
\* when V >= 100000 and else to distance_m, the whole meters of V / 100,
\* whatever targetDisplayUnit says; a zero value or any other targetType
\* to no target key.
C24_StepTarget ==
    DecodedRecords =>
        \A i \in 1..Len(Given) :
            ~IsGroupRecord(Given[i]) =>
                LET r == Given[i]
                    V == r.targetValue
                    keys == DOMAIN Out[i] \cap TargetEntryKeys
                IN  IF HasTarget(r, TargetType_DURATION)
                    THEN /\ keys = {"duration_seconds", "duration_display"}
                         /\ Out[i]["duration_seconds"] = V
                         /\ Out[i]["duration_display"] = format_duration(V)
                    ELSE IF HasTarget(r, TargetType_DISTANCE)
                    THEN IF V >= 100000
                         THEN /\ keys = {"distance_km"}
                              /\ Out[i]["distance_km"].k = 2
                              /\ Abs(Out[i]["distance_km"].n * 1000 - V) <= 500
                         ELSE /\ keys = {"distance_m"}
                              /\ Out[i]["distance_m"] = V \div 100
                    ELSE keys = {}
C24_Witness ==
    /\ DecodedRecords
    /\ Len(Given) = 1
    /\ ~IsGroupRecord(Given[1])
    /\ HasTarget(Given[1], TargetType_DISTANCE)
    /\ Given[1].targetValue = 123400
    /\ "targetDisplayUnit" \in DOMAIN Given[1]
    /\ Given[1].targetDisplayUnit = 2
    /\ Out[1]["distance_km"] = Num(123, 2)
    /\ "distance_m" \notin DOMAIN Out[1]

(***************************************************************************)
(* Validation against encoding.                                            *)
(***************************************************************************)
\* Every dict of ds passes Exercise.validate.
AllValid(ds) == \A i \in 1..Len(ds) : IsNone(validate(from_dict(ds[i])))
EncoderCall == pc = "done" /\ call.fn \in {"to_coros", "to_coros_untyped"}

\* C28: when the sport is known and every block passes Exercise.validate,
\* to_coros returns and does not raise; a pace or heart-rate string the
\* validators accept is parsed by parse_pace / parse_hr without error.
C28_ValidEncodes ==
    /\ /\ EncoderCall
       /\ ~IsNone(resolve_sport(call.sport))
       /\ AllValid(call.exercises)
       => ~result.raised
    /\ /\ pc = "done"
       /\ call.fn = "parse_pace"
       /\ validate_pace_format(call.s)
       => ~result.raised
    /\ /\ pc = "done"
       /\ call.fn = "parse_hr"
       /\ validate_hr_format(call.s)
       => ~result.raised
C28_Witness ==
    /\ pc = "done"
    /\ call.fn = "parse_pace"
    /\ call.s = <<"4", ":", "7", "5">>
    /\ validate_pace_format(call.s)
    /\ result = Return(<<315000, 315000>>)

(***************************************************************************)
(* The structure of a workout through to_coros and from_coros.             *)
(***************************************************************************)
\* C29: for a valid block sequence, from_coros(to_coros(blocks)) has one
\* entry per encoded record in block order; a block with repeats > 1 gives
\* a "repeat" entry with the block's repeats and its rest_seconds (absent
\* when the rest is absent or 0), then its work entry, and its recovery
\* entry when the rest is nonzero, both marked in_group; the entry of any
\* other block is not marked in_group and keeps the block's kind.
C29_StructureRoundTrip ==
    Decoded =>
        /\ Len(Entries) = ExpStart(Blocks, Len(Blocks) + 1) - 1
        /\ Len(Entries) =
               Len(to_coros(Blocks, call.sport).value.coros_exercises)
        /\ \A b \in 1..Len(Blocks) :
               LET d == Blocks[b]
                   at == ExpStart(Blocks, b)
               IN  IF Repeating(d)
                   THEN /\ Entries[at]["type"] = "repeat"
                        /\ Entries[at]["repeats"] = RepeatsOf(d)
                        /\ "in_group" \notin DOMAIN Entries[at]
                        /\ IF RestOf(d) # 0
                           THEN /\ Entries[at]["rest_seconds"] = RestOf(d)
                                /\ Marked(Entries[at + 2])
                                /\ Entries[at + 2]["type"] = "recovery"
                           ELSE "rest_seconds" \notin DOMAIN Entries[at]
                        /\ Marked(Entries[at + 1])
                        /\ Entries[at + 1]["type"] # "repeat"
                   ELSE /\ "in_group" \notin DOMAIN Entries[at]
                        /\ Entries[at]["type"] = d["type"]
C29_Witness ==
    /\ Decoded
    /\ Len(Blocks) = 3
    /\ ~Repeating(Blocks[1])
    /\ Repeating(Blocks[2]) /\ RestOf(Blocks[2]) # 0
    /\ Repeating(Blocks[3]) /\ RestOf(Blocks[3]) = 0
    /\ Len(Entries) = 6
    /\ Entries[2]["rest_seconds"] = RestOf(Blocks[2])
    /\ Marked(Entries[3]) /\ Marked(Entries[4]) /\ Marked(Entries[6])
    /\ "rest_seconds" \notin DOMAIN Entries[5]

(***************************************************************************)
(* api/workouts.py: the workout flows over the upstream service.  A call   *)
(* (call.fn, its arguments) runs a step at a time; call.upstream is what   *)
(* the service does on this run: the schedule it holds or None when the    *)
(* query raises, the calculate and estimate results or None when they      *)
(* raise, the update response or None when it raises.  result holds the    *)
(* locals of the flow, the requests issued so far in order, and the        *)
(* outcome once the flow has returned or raised.  An id is an int or a     *)
(* str: [t |-> "int" or "str", n |-> the number it writes].  The fields of *)
(* the programs that are constants of the builders and the distance and    *)
(* duration texts of the returned dicts are left out.                      *)
(***************************************************************************)
IntId(n) == [t |-> "int", n |-> n]
StrId(n) == [t |-> "str", n |-> n]
\* str(id).
Str(id) == StrId(id.n)
\* d[key] = v on a dict, and d.get(key) as an optional value.
Put(d, key, v) == (key :> v) @@ d
GetOpt(d, key) == IF key \in DOMAIN d THEN Some(d[key]) ELSE None

\* utils.date_to_coros: int(date_str.replace("-", "")).
Replace(s, old) == SelectSeq(s, LAMBDA c : c # old)
date_to_coros_ok(date_str) == IntOk(Replace(date_str, "-"))
date_to_coros(date_str) == IntOf(Replace(date_str, "-"))

\* Mutant of get_plan_info: a failed read gives the id 0.
get_plan_info_ZeroId(fetched) ==
    LET failed == [plan_id |-> "", pb_version |-> 0, next_id |-> 0]
        max == GetOr(Val(fetched), "maxIdInPlan", <<"0">>)
    IN  IF IsNone(fetched) THEN failed
        ELSE IF ~IntOk(max) THEN failed
        ELSE [plan_id    |-> GetOr(Val(fetched), "id", ""),
              pb_version |-> GetOr(Val(fetched), "pbVersion", 0),
              next_id    |-> IntOf(max) + 1]

\* _get_plan_info, given what get_training_schedule did: None when it
\* raised.  int() of a maxIdInPlan that is no number raises inside the try.
get_plan_info(fetched) ==
    LET failed == [plan_id |-> "", pb_version |-> 0, next_id |-> 1]
        max == GetOr(Val(fetched), "maxIdInPlan", <<"0">>)
    IN  IF IsNone(fetched) THEN failed
        ELSE IF ~IntOk(max) THEN failed
        ELSE [plan_id    |-> GetOr(Val(fetched), "id", ""),
              pb_version |-> GetOr(Val(fetched), "pbVersion", 0),
              next_id    |-> IntOf(max) + 1]

\* The number of step records.
StepCount(exercises) ==
    Cardinality({i \in 1..Len(exercises) : ~IsGroupRecord(exercises[i])})

\* _build_estimate_program.
build_estimate_program(id_in_plan, name, sport_code, is_simple, exercises) ==
    [idInPlan  |-> IntId(id_in_plan),
     name      |-> name,
     sportType |-> sport_code,
     subType   |-> IF is_simple THEN 0 ELSE 65535,
     totalSets |-> IF is_simple THEN StepCount(exercises) ELSE 0,
     sets      |-> IF is_simple THEN StepCount(exercises) ELSE 0,
     simple    |-> is_simple,
     exercises |-> exercises,
     pbVersion |-> 2]

\* _build_calculate_program.
build_calculate_program(name, sport_code, is_simple, exercises) ==
    [distance     |-> <<"0">>,
     duration     |-> 0,
     exercises    |-> exercises,
     id           |-> StrId(0),
     idInPlan     |-> StrId(0),
     name         |-> name,
     pbVersion    |-> 2,
     simple       |-> is_simple,
     sportType    |-> sport_code,
     subType      |-> IF is_simple THEN 0 ELSE 65535,
     trainingLoad |-> 0]

\* f"{float(n):.2f}" for a natural number n.
Fixed2(n) == DecStr(n) \o <<".", "0", "0">>

\* Mutant of build_schedule_program: the group records are dropped.
build_schedule_program_StepsOnly(calc_program, calc_result, id_in_plan) ==
    [calc_program EXCEPT
        !.exercises = SelectSeq(calc_program.exercises,
                                LAMBDA r : ~IsGroupRecord(r)),
        !.idInPlan = IntId(id_in_plan),
        !.distance = Fixed2(GetOr(calc_result, "planDistance", 0)),
        !.duration = GetOr(calc_result, "planDuration", 0),
        !.trainingLoad = GetOr(calc_result, "planTrainingLoad", 0)]
    @@ [pitch               |-> GetOr(calc_result, "planPitch", 0),
        exerciseBarChart    |-> GetOr(calc_result, "exerciseBarChart", <<>>),
        distanceDisplayUnit |-> 1]

\* _build_schedule_program: a copy of the calculate program with the
\* results written in.
build_schedule_program(calc_program, calc_result, id_in_plan) ==
    [calc_program EXCEPT
        !.idInPlan = IntId(id_in_plan),
        !.distance = Fixed2(GetOr(calc_result, "planDistance", 0)),
        !.duration = GetOr(calc_result, "planDuration", 0),
        !.trainingLoad = GetOr(calc_result, "planTrainingLoad", 0)]
    @@ [pitch               |-> GetOr(calc_result, "planPitch", 0),
        exerciseBarChart    |-> GetOr(calc_result, "exerciseBarChart", <<>>),
        distanceDisplayUnit |-> 1]

\* create_workout, lines 46-59: the payload of the schedule update.
create_payload(plan_info, coros_date, calc_result, schedule_program) ==
    [pbVersion |-> plan_info.pb_version,
     entities  |-> <<[happenDay        |-> DecStr(coros_date),
                      idInPlan         |-> IntId(plan_info.next_id),
                      sortNo           |-> 0,
                      dayNo            |-> 0,
                      sortNoInPlan     |-> 0,
                      sortNoInSchedule |-> 0,
                      exerciseBarChart |->
                          GetOr(calc_result, "exerciseBarChart", <<>>)]>>,
     programs  |-> <<schedule_program>>,
     versionObjects |-> <<[id |-> IntId(plan_info.next_id), status |-> 1]>>]

\* estimate_workout, lines 98-106: the payload of the estimate.
estimate_payload(plan_info, coros_date, program) ==
    [entity  |-> [happenDay        |-> DecStr(coros_date),
                  idInPlan         |-> IntId(plan_info.next_id),
                  sortNo           |-> 0,
                  dayNo            |-> 0,
                  sortNoInPlan     |-> 0,
                  sortNoInSchedule |-> 0],
     program |-> program]

\* reschedule_workout, lines 135-145: the first entry of a list whose
\* idInPlan writes as workout_id does; None when there is none.
MatchesStr(e, workout_id) ==
    "idInPlan" \in DOMAIN e /\ Str(e.idInPlan) = Str(workout_id)
FindStr(entries, workout_id) ==
    LET hits == {i \in 1..Len(entries) : MatchesStr(entries[i], workout_id)}
    IN  IF hits = {} THEN None
        ELSE Some(entries[CHOOSE i \in hits : \A j \in hits : i <= j])

\* delete_workout, lines 186-190 and 195-198: the first entry of a list
\* whose idInPlan equals workout_id, a str never being equal to an int.
MatchesExact(e, workout_id) ==
    "idInPlan" \in DOMAIN e /\ e.idInPlan = workout_id
FindExact(entries, workout_id) ==
    LET hits == {i \in 1..Len(entries) : MatchesExact(entries[i], workout_id)}
    IN  IF hits = {} THEN None
        ELSE Some(entries[CHOOSE i \in hits : \A j \in hits : i <= j])

\* reschedule_workout, lines 150-163: the payload of a move.
reschedule_payload(schedule, entity, program, workout_id, new_coros_date) ==
    [pbVersion |-> GetOr(schedule, "pbVersion", 0),
     entities  |-> <<Put(entity, "happenDay", new_coros_date)>>,
     programs  |-> <<program>>,
     versionObjects |->
         <<[type          |-> 0,
            id            |-> workout_id,
            planProgramId |-> workout_id,
            planId        |-> GetOr(entity, "planId", ""),
            status        |-> 2]>>]

\* delete_workout, lines 200-210: the payload of a removal.
delete_payload(pb_version, plan_id, workout_id) ==
    [pbVersion |-> pb_version,
     entities  |-> <<>>,
     programs  |-> <<>>,
     versionObjects |->
         <<[id            |-> workout_id,
            planProgramId |-> workout_id,
            planId        |-> plan_id,
            status        |-> 3]>>]

(***************************************************************************)
(* The calls of the flows and what the service does.                       *)
(***************************************************************************)
DateText(y, m, d) == DecStr(y) \o <<"-">> \o Pad2(m) \o <<"-">> \o Pad2(d)
FlowDates == {DateText(2026, 2, 15), <<"s", "o", "o", "n">>}
Today == DateText(2026, 2, 12)

MockEntity ==
    [idInPlan |-> StrId(5), happenDay |-> 20260212, planId |-> "plan-1",
     planProgramId |-> StrId(5)]
MockProgram == [idInPlan |-> StrId(5), name |-> "Easy Run", sportType |-> 1]
MockSchedule ==
    [id |-> "plan-1", pbVersion |-> 5, maxIdInPlan |-> <<"1", "0">>,
     entities |-> <<MockEntity>>, programs |-> <<MockProgram>>]
OtherEntity == [MockEntity EXCEPT !.idInPlan = StrId(4), !.planProgramId = StrId(4)]
OtherProgram == [MockProgram EXCEPT !.idInPlan = StrId(4), !.name = "Long Run"]
Schedules ==
    {MockSchedule,
     [MockSchedule EXCEPT !.entities = <<>>, !.programs = <<>>],
     Restrict(MockSchedule, {"id", "maxIdInPlan", "entities", "programs"}),
     Restrict(MockSchedule, {"id", "pbVersion", "entities", "programs"}),
     Restrict(MockSchedule, {"entities", "programs"}),
     [MockSchedule EXCEPT !.maxIdInPlan = <<"x">>],
     [MockSchedule EXCEPT !.entities = <<>>],
     [MockSchedule EXCEPT !.programs = <<>>],
     [MockSchedule EXCEPT !.entities = <<OtherEntity, MockEntity>>,
                          !.programs = <<OtherProgram, MockProgram>>],
     [MockSchedule EXCEPT !.entities = <<OtherEntity>>,
                          !.programs = <<OtherProgram>>],
     [MockSchedule EXCEPT
         !.entities = <<[MockEntity EXCEPT !.idInPlan = IntId(5)]>>,
         !.programs = <<[MockProgram EXCEPT !.idInPlan = IntId(5)]>>],
     [MockSchedule EXCEPT
         !.entities = <<Restrict(MockEntity,
                                 {"idInPlan", "happenDay", "planProgramId"})>>]}
CalcResults ==
    {[planDistance |-> 1000000, planDuration |-> 3600, planTrainingLoad |-> 85,
      planPitch |-> 0, exerciseBarChart |-> <<>>],
     [planDuration |-> 3600]}
EstimateResults ==
    {[distance |-> 1000000, duration |-> 3600, trainingLoad |-> 85],
     [duration |-> 3600]}
UpdateResponses ==
    {[result |-> "0000"],
     [result |-> "5001", message |-> "Plan version conflict"],
     [result |-> "5001"]}
Optional(S) == {None} \cup {Some(x) : x \in S}
Upstreams ==
    [schedule : Optional(Schedules),
     calc     : Optional(CalcResults),
     estimate : Optional(EstimateResults),
     update   : Optional(UpdateResponses)]
DefaultUpstream ==
    [schedule |-> Some(MockSchedule),
     calc     |-> Some(CHOOSE r \in CalcResults : "planDistance" \in DOMAIN r),
     estimate |-> Some(CHOOSE r \in EstimateResults : "distance" \in DOMAIN r),
     update   |-> Some([result |-> "0000"])]

WarmupBlock ==
    Block("warmup", Some(Num(15, 0)), None, None, None, None, None, None)
FlowWorkouts ==
    {<<WarmupBlock,
       Block("interval", None, None, Some(Num(5, 0)), None, None, None, None),
       Block("cooldown", Some(Num(10, 0)), None, None, None, None, None,
             None)>>,
     <<WarmupBlock>>,
     <<WarmupBlock,
       Block("interval", None, Some(Num(800, 0)), None, Some(4), Some(90),
             Some(PaceString(<<<<4, 30>>, None>>)), None)>>,
     <<Block("interval", None, Some(Num(400, 0)), None, Some(2), None, None,
             None)>>,
     <<WarmupBlock,
       Block("interval", None, None, None, None, None, None, None)>>,
     <<Block("sprint", Some(Num(5, 0)), None, None, None, None, None, None)>>}
FlowSports == {"running", "BIKE", "badminton"}

\* The upstream behaviours a create or estimate call is run against, and
\* those a reschedule or delete call is run against (they issue no
\* calculate and no estimate).
BuildUpstreams ==
    {u \in Upstreams :
        \/ u.estimate = DefaultUpstream.estimate /\ u.update # None
        \/ u.calc = DefaultUpstream.calc /\ u.update = DefaultUpstream.update
        \/ u.schedule = DefaultUpstream.schedule
           /\ u.estimate = DefaultUpstream.estimate}
ChangeUpstreams ==
    {u \in Upstreams :
        u.calc = DefaultUpstream.calc /\ u.estimate = DefaultUpstream.estimate}
WorkoutIds == {StrId(5), StrId(999)}
FlowCalls ==
    {[fn |-> "create_workout", name |-> "Tempo Run", date |-> d, sport |-> s,
      exercises |-> w, upstream |-> DefaultUpstream] :
        d \in FlowDates, s \in FlowSports, w \in FlowWorkouts}
    \cup {[fn |-> "create_workout", name |-> "Tempo Run",
           date |-> DateText(2026, 2, 15), sport |-> "running",
           exercises |-> w, upstream |-> u] :
             w \in FlowWorkouts, u \in BuildUpstreams}
    \cup {[fn |-> "estimate_workout", date |-> d, sport |-> s,
           exercises |-> w, today |-> Today, upstream |-> u] :
             d \in Optional({DateText(2026, 2, 15)}), s \in FlowSports,
             w \in FlowWorkouts,
             u \in {v \in BuildUpstreams : v.calc = DefaultUpstream.calc
                                           /\ v.update = DefaultUpstream.update}}
    \cup {[fn |-> f, workout_id |-> id, date |-> DateText(2026, 2, 16),
           today |-> Today, upstream |-> u] :
             f \in {"reschedule_workout", "delete_workout"},
             id \in WorkoutIds, u \in ChangeUpstreams}

(***************************************************************************)
(* The flows, a step at a time.                                            *)
(***************************************************************************)
Request(op, body, raised) == [op |-> op, body |-> body, raised |-> raised]
Locals == result
Requests == result.requests
\* The flow ends: it returns v or raises.
FlowEnds(locals, outcome) ==
    /\ result' = Put(locals, "outcome", outcome)
    /\ pc' = IF outcome.raised THEN "raised" ELSE "returned"
    /\ UNCHANGED <<call, globals>>
FlowGoes(locals, to) ==
    /\ result' = locals
    /\ pc' = to
    /\ UNCHANGED <<call, globals>>
Issued(op, body, raised) == Put(Locals, "requests",
                                Append(Requests, Request(op, body, raised)))
UpstreamError(op) == Raise("UpstreamError", op)

FlowInit ==
    /\ call \in FlowCalls
    /\ pc = "start"
    /\ result = [requests |-> <<>>]
    /\ globals = ModuleGlobals

\* create_workout lines 29-30, estimate_workout lines 88-91.
ResolveSportAndDate ==
    /\ pc = "start"
    /\ call.fn \in {"create_workout", "estimate_workout"}
    /\ LET date == IF call.fn = "create_workout" THEN call.date
                   ELSE IF IsNone(call.date) THEN call.today
                   ELSE Val(call.date)
       IN  IF IsNone(resolve_sport(call.sport))
           THEN FlowEnds(Locals, UnknownSport(call.sport))
           ELSE IF ~date_to_coros_ok(date)
           THEN FlowEnds(Locals, Raise("ValueError", "date"))
           ELSE FlowGoes(Put(Put(Locals, "sport_code",
                                 Val(resolve_sport(call.sport))),
                             "coros_date", date_to_coros(date)),
                         "plan_info")

\* create_workout lines 33-34, estimate_workout lines 93-94.
GetPlanInfo ==
    /\ pc = "plan_info"
    /\ FlowGoes(Put(Issued("schedule/query",
                           <<Locals.coros_date, Locals.coros_date>>,
                           IsNone(call.upstream.schedule)),
                    "plan_info", get_plan_info(call.upstream.schedule)),
                "encode")

\* create_workout line 37, estimate_workout line 96.
Encode ==
    /\ pc = "encode"
    /\ LET encoded == to_coros(call.exercises, call.sport)
       IN  IF encoded.raised THEN FlowEnds(Locals, encoded)
           ELSE FlowGoes(Put(Put(Locals, "coros_exercises",
                                 encoded.value.coros_exercises),
                             "is_simple", encoded.value.is_simple),
                         IF call.fn = "create_workout" THEN "calculate"
                         ELSE "estimate")

\* Mutant of Calculate: the flow goes on when the calculate request raised.
Calculate_GoOnWhenRaised ==
    /\ pc = "calculate"
    /\ LET calc_program ==
               build_calculate_program(call.name, Locals.sport_code,
                                       Locals.is_simple, Locals.coros_exercises)
           issued == Issued("program/calculate", calc_program,
                            IsNone(call.upstream.calc))
       IN  FlowGoes(Put(Put(issued, "calc_program", calc_program),
                        "calc_result",
                        IF IsNone(call.upstream.calc) THEN [planDuration |-> 0]
                        ELSE Val(call.upstream.calc)),
                    "update")

\* create_workout lines 40-41.
Calculate ==
    /\ pc = "calculate"
    /\ LET calc_program ==
               build_calculate_program(call.name, Locals.sport_code,
                                       Locals.is_simple, Locals.coros_exercises)
           issued == Issued("program/calculate", calc_program,
                            IsNone(call.upstream.calc))
       IN  IF IsNone(call.upstream.calc)
           THEN FlowEnds(issued, UpstreamError("program/calculate"))
           ELSE FlowGoes(Put(Put(issued, "calc_program", calc_program),
                             "calc_result", Val(call.upstream.calc)),
                         "update")

\* create_workout lines 44-78.
ScheduleUpdate ==
    /\ pc = "update"
    /\ LET schedule_program ==
               build_schedule_program(Locals.calc_program, Locals.calc_result,
                                      Locals.plan_info.next_id)
           payload == create_payload(Locals.plan_info, Locals.coros_date,
                                     Locals.calc_result, schedule_program)
           issued == Issued("schedule/update", payload,
                            IsNone(call.upstream.update))
           response == Val(call.upstream.update)
       IN  IF IsNone(call.upstream.update)
           THEN FlowEnds(issued, UpstreamError("schedule/update"))
           ELSE IF "result" \in DOMAIN response /\ response.result = "0000"
           THEN FlowEnds(issued,
                    Return([success        |-> TRUE,
                            workout_id     |-> Str(IntId(Locals.plan_info.next_id)),
                            name           |-> call.name,
                            date           |-> call.date,
                            sport          |-> call.sport,
                            estimated_load |->
                                GetOpt(Locals.calc_result,
                                       "planTrainingLoad")]))
           ELSE FlowEnds(issued,
                    Return([success |-> FALSE,
                            error   |-> GetOr(response, "message",
                                              "Unknown error")]))

\* estimate_workout lines 98-114.
Estimate ==
    /\ pc = "estimate"
    /\ LET program ==
               build_estimate_program(Locals.plan_info.next_id, "Preview",
                                      Locals.sport_code, Locals.is_simple,
                                      Locals.coros_exercises)
           payload == estimate_payload(Locals.plan_info, Locals.coros_date,
                                       program)
           issued == Issued("program/estimate", payload,
                            IsNone(call.upstream.estimate))
       IN  IF IsNone(call.upstream.estimate)
           THEN FlowEnds(issued, UpstreamError("program/estimate"))
           ELSE FlowEnds(issued,
                    Return([estimated_load |->
                                GetOpt(Val(call.upstream.estimate),
                                       "trainingLoad")]))

\* reschedule_workout lines 123-132, delete_workout lines 179-180: the
\* schedule is fetched; reschedule asks for a window around today and the
\* new date, kept here as the two dates it is computed from.
FetchSchedule ==
    /\ pc = "start"
    /\ call.fn \in {"reschedule_workout", "delete_workout"}
    /\ LET coros_date == date_to_coros(call.date)
           issued == Issued("schedule/query",
                            IF call.fn = "delete_workout"
                            THEN <<coros_date, coros_date>>
                            ELSE <<date_to_coros(call.today), coros_date>>,
                            IsNone(call.upstream.schedule))
       IN  IF IsNone(call.upstream.schedule)
           THEN FlowEnds(issued, UpstreamError("schedule/query"))
           ELSE FlowGoes(Put(Put(issued, "coros_date", coros_date),
                             "schedule", Val(call.upstream.schedule)),
                         "find")

\* The end of reschedule_workout and delete_workout: the update is sent
\* and its response is not looked at.
SendChange(payload, message) ==
    LET issued == Issued("schedule/update", payload,
                         IsNone(call.upstream.update))
    IN  IF IsNone(call.upstream.update)
        THEN FlowEnds(issued, UpstreamError("schedule/update"))
        ELSE FlowEnds(issued, Return([success |-> TRUE, message |-> message]))

\* reschedule_workout lines 134-170.
Reschedule ==
    /\ pc = "find"
    /\ call.fn = "reschedule_workout"
    /\ LET schedule == Locals.schedule
           target_entity ==
               FindStr(GetOr(schedule, "entities", <<>>), call.workout_id)
           target_program ==
               FindStr(GetOr(schedule, "programs", <<>>), call.workout_id)
       IN  IF IsNone(target_entity) \/ IsNone(target_program)
           THEN FlowEnds(Locals,
                    Return([success |-> FALSE,
                            error |-> <<"not found in schedule",
                                        call.workout_id>>]))
           ELSE SendChange(
                    reschedule_payload(schedule, Val(target_entity),
                                       Val(target_program), call.workout_id,
                                       Locals.coros_date),
                    <<"moved", GetOr(Val(target_program), "name",
                                     call.workout_id), call.date>>)

\* delete_workout lines 181-215.
Delete ==
    /\ pc = "find"
    /\ call.fn = "delete_workout"
    /\ LET schedule == Locals.schedule
           entity == FindExact(GetOr(schedule, "entities", <<>>),
                               call.workout_id)
           program == FindExact(GetOr(schedule, "programs", <<>>),
                                call.workout_id)
           plan_id == IF IsNone(entity) THEN None
                      ELSE GetOpt(Val(entity), "planId")
           workout_name == IF IsNone(program) THEN call.workout_id
                           ELSE GetOr(Val(program), "name", call.workout_id)
       IN  IF "pbVersion" \notin DOMAIN schedule
           THEN FlowEnds(Locals,
                    Return([success |-> FALSE,
                            error |-> <<"No active training plan found">>]))
           ELSE IF IsNone(plan_id)
           THEN FlowEnds(Locals,
                    Return([success |-> FALSE,
                            error |-> <<"not found on", call.workout_id,
                                        call.date>>]))
           ELSE SendChange(delete_payload(schedule.pbVersion, Val(plan_id),
                                          call.workout_id),
                           <<"deleted", workout_name>>)

FlowNext ==
    \/ ResolveSportAndDate
    \/ GetPlanInfo
    \/ Encode
    \/ Calculate
    \/ ScheduleUpdate
    \/ Estimate
    \/ FetchSchedule
    \/ Reschedule
    \/ Delete

SpecFlow == FlowInit /\ [][FlowNext]_vars

(***************************************************************************)
(* Properties of the workout flows.                                        *)
(***************************************************************************)
\* The positions in the log of the requests sent to an endpoint.
OfOp(op) == {i \in 1..Len(Requests) : Requests[i].op = op}
Creating == call.fn = "create_workout"
Building == call.fn \in {"create_workout", "estimate_workout"}
Changing == call.fn \in {"reschedule_workout", "delete_workout"}
Ended == pc \in {"returned", "raised"}
\* What to_coros gives on the arguments of the call.
CallEncoded == to_coros(call.exercises, call.sport)
SportKnown == ~IsNone(resolve_sport(call.sport))
DateGiven ==
    IF Creating THEN call.date
    ELSE IF IsNone(call.date) THEN call.today ELSE Val(call.date)

\* C25: in create_workout the exercises of the program sent to the
\* calculate endpoint and of the program sent to the schedule-update
\* endpoint are the records to_coros returned, in the same order with the
\* same fields, and the simple flag of both is the isSimple it returned.
C25_ExercisesVerbatim ==
    Creating =>
        /\ \A i \in OfOp("program/calculate") :
               /\ Requests[i].body.exercises = CallEncoded.value.coros_exercises
               /\ Requests[i].body.simple = CallEncoded.value.is_simple
        /\ \A i \in OfOp("schedule/update") :
               /\ Len(Requests[i].body.programs) = 1
               /\ Requests[i].body.programs[1].exercises =
                      CallEncoded.value.coros_exercises
               /\ Requests[i].body.programs[1].simple =
                      CallEncoded.value.is_simple
C25_Witness ==
    /\ Creating
    /\ pc = "returned"
    /\ Len(call.exercises) = 2
    /\ OfOp("program/calculate") = {2}
    /\ OfOp("schedule/update") = {3}
    /\ Len(Requests[3].body.programs[1].exercises) = 4
    /\ Requests[3].body.programs[1].exercises[2].isGroup
    /\ Requests[3].body.programs[1].exercises = Requests[2].body.exercises
    /\ ~Requests[3].body.programs[1].simple

Holds(schedule) ==
    LET entity == FindStr(GetOr(schedule, "entities", <<>>), call.workout_id)
        program == FindStr(GetOr(schedule, "programs", <<>>), call.workout_id)
    IN  IF call.fn = "reschedule_workout"
        THEN ~IsNone(entity) /\ ~IsNone(program)
        ELSE ~IsNone(entity) /\ "pbVersion" \in DOMAIN schedule

\* C27: reschedule_workout and delete_workout return success = false and
\* issue no schedule-update request when the fetched schedule does not hold
\* the workout; when it does, exactly one schedule-update request is
\* issued, with versionObjects status 2 for a move and status 3 with empty
\* entities and programs for a removal.
C27_FoundIffUpdated ==
    Changing /\ Ended /\ "schedule" \in DOMAIN Locals =>
        IF Holds(Locals.schedule)
        THEN /\ Cardinality(OfOp("schedule/update")) = 1
             /\ \A i \in OfOp("schedule/update") :
                    LET body == Requests[i].body
                    IN  /\ Len(body.versionObjects) = 1
                        /\ IF call.fn = "reschedule_workout"
                           THEN body.versionObjects[1].status = 2
                           ELSE /\ body.versionObjects[1].status = 3
                                /\ body.entities = <<>>
                                /\ body.programs = <<>>
        ELSE /\ OfOp("schedule/update") = {}
             /\ pc = "returned"
             /\ ~result.outcome.value.success

\* What _get_plan_info makes of the schedule query, restated: the id and
\* the pbVersion a new workout is to carry.
PlanRead ==
    ~IsNone(call.upstream.schedule)
    /\ ("maxIdInPlan" \in DOMAIN Val(call.upstream.schedule) =>
            IntOk(Val(call.upstream.schedule).maxIdInPlan))
ExpectedId ==
    IF ~PlanRead THEN 1
    ELSE IF "maxIdInPlan" \notin DOMAIN Val(call.upstream.schedule) THEN 1
    ELSE IntOf(Val(call.upstream.schedule).maxIdInPlan) + 1
ExpectedVersion ==
    IF ~PlanRead THEN 0
    ELSE IF "pbVersion" \notin DOMAIN Val(call.upstream.schedule) THEN 0
    ELSE Val(call.upstream.schedule).pbVersion

\* C30: create_workout and estimate_workout do not abort when the plan-info
\* read fails: the flow goes on with idInPlan 1 and pbVersion 0; when the
\* read succeeds the new workout's idInPlan is maxIdInPlan + 1 and the
\* schedule's pbVersion is sent in the update payload.
C30_PlanInfoFallback ==
    Building =>
        /\ pc = "raised" =>
               result.outcome # UpstreamError("schedule/query")
        /\ pc \in {"encode", "calculate", "update", "estimate"} =>
               /\ OfOp("schedule/query") = {1}
               /\ Requests[1].raised = IsNone(call.upstream.schedule)
        /\ \A i \in OfOp("schedule/update") :
               LET body == Requests[i].body
               IN  /\ body.pbVersion = ExpectedVersion
                   /\ body.entities[1].idInPlan = IntId(ExpectedId)
                   /\ body.programs[1].idInPlan = IntId(ExpectedId)
                   /\ body.versionObjects[1].id = IntId(ExpectedId)
        /\ \A i \in OfOp("program/estimate") :
               LET body == Requests[i].body
               IN  /\ body.entity.idInPlan = IntId(ExpectedId)
                   /\ body.program.idInPlan = IntId(ExpectedId)
        /\ pc = "returned" /\ Creating /\ result.outcome.value.success =>
               result.outcome.value.workout_id = StrId(ExpectedId)
C30_Witness ==
    /\ Creating
    /\ IsNone(call.upstream.schedule)
    /\ pc = "returned"
    /\ result.outcome.value.success
    /\ result.outcome.value.workout_id = StrId(1)
    /\ Requests[1].raised
    /\ Requests[3].body.pbVersion = 0
    /\ Requests[3].body.versionObjects[1].id = IntId(1)

====
